---- MODULE Spec2Model ----
(***************************************************************************)
(* Infra-AI: alert-to-remediation pipeline (policy evaluator, Redis queue, *)
(* remediation worker), the command router and the Verify stage of the     *)
(* agent graph.                                                            *)
(*                                                                         *)
(* Python str values that the code inspects character by character are     *)
(* sequences of one-character strings; names that are only compared for    *)
(* equality (tool names, dict keys of action/params, statuses) are TLA+    *)
(* strings.  A Python value is a tagged record [t, v].                     *)
(***************************************************************************)
EXTENDS Integers, Sequences, FiniteSets, TLC

VARIABLES
    policies,      \* rows of the policies table (Policy Store)
    evalCall,      \* the last evaluate_alert call: payload, the Policy objects
                   \* fetched, and those objects as the call left them
    evalResult,    \* what that call returned
    interpIn,      \* arguments of the last _interpolate_params call
    interpOut,     \* what that call returned
    queue,         \* the Redis list "remediation_queue", head (left end) first
    worker,        \* per worker process: where it is in worker_loop, message in hand
    jobLog,        \* rows of the job_logs table, in insertion order
    invoked,       \* handler executions so far: the tool functions actually run
    taken,         \* number of messages popped off the queue so far
    enqueued,      \* every message pushed onto the queue so far, oldest first
    classify,      \* the is_server_error call in progress, then what it returned
    route,         \* the route_infra_command call in progress, then what it did
    clientCache,   \* the module-level MCP client singletons: TRUE when one is cached
    verify,        \* the verification_node run in progress, then the state it returned
    turn,          \* the conversational turn in progress: the graph node that runs
                   \* next, the node runs so far, the Conversation State
    cachedBy,      \* per client singleton: the session whose turn cached it
    singleton,     \* per backend: the module-level client variable, the clients
                   \* constructed so far and those whose start_server returned True
    getter,        \* per request: where it is in its get_*_mcp_client call
    matching       \* the _match_condition call in progress, then what it returned

vars == <<policies, evalCall, evalResult, interpIn, interpOut,
          queue, worker, jobLog, invoked, taken, enqueued,
          classify, route, clientCache, verify, turn, cachedBy,
          singleton, getter, matching>>

evalVars == <<evalCall, evalResult>>
interpVars == <<interpIn, interpOut>>
pipeVars == <<queue, worker, jobLog, invoked, taken, enqueued>>
engineVars == <<classify, route, clientCache, verify, turn, cachedBy, singleton, getter,
                matching>>
getterVars == <<singleton, getter>>

(***************************************************************************)
(* Bounds                                                                  *)
(***************************************************************************)
MaxAlerts == 2      \* entries in one webhook payload
MaxFrags == 2       \* fragments concatenated into one parameter value
MaxMsgs == 3        \* messages pushed onto the queue in one run
MaxSupersteps == 7  \* node runs the graph allows one turn (its recursion limit)

(***************************************************************************)
(* Text                                                                    *)
(***************************************************************************)
Min(S) == CHOOSE x \in S : \A y \in S : x <= y

\* s[i..] starts with sub
StartsAt(s, sub, i) ==
    /\ i + Len(sub) - 1 <= Len(s)
    /\ \A j \in 1..Len(sub) : s[i + j - 1] = sub[j]

\* Python: sub in s
StrIn(sub, s) == \E i \in 1..(Len(s) + 1) : StartsAt(s, sub, i)

\* index of the first occurrence of sub in s, 0 when there is none
StrFind(s, sub) ==
    LET hits == {i \in 1..(Len(s) + 1) : StartsAt(s, sub, i)}
    IN  IF hits = {} THEN 0 ELSE Min(hits)

\* Python: s.split(sep)[0]
SplitFirst(s, sep) ==
    LET i == StrFind(s, sep)
    IN  IF i = 0 THEN s ELSE SubSeq(s, 1, i - 1)

\* Python: s.split(sep)[1], for s that contains sep
SplitSecond(s, sep) ==
    LET i == StrFind(s, sep)
        rest == SubSeq(s, i + Len(sep), Len(s))
    IN  SplitFirst(rest, sep)

(***************************************************************************)
(* Python values and dicts                                                 *)
(***************************************************************************)
Str(s) == [t |-> "str", v |-> s]
Num(n) == [t |-> "int", v |-> n]
None == [t |-> "none", v |-> 0]

IsStr(x) == x.t = "str"

\* Python truthiness of a value
Truthy(x) ==
    CASE x.t = "none" -> FALSE
      [] x.t = "str" -> x.v # <<>>
      [] x.t = "int" -> x.v # 0
      [] x.t = "dict" -> DOMAIN x.v # {}
      [] x.t = "list" -> x.v # <<>>
      [] OTHER -> TRUE

\* Python: d.get(k, default)
Get(d, k, default) == IF k \in DOMAIN d THEN d[k] ELSE default

\* Python: d[k] = v
DictSet(d, k, v) == [x \in DOMAIN d \cup {k} |-> IF x = k THEN v ELSE d[x]]

EmptyDict == <<>>

(***************************************************************************)
(* Text constants                                                          *)
(***************************************************************************)
\* the character strings of the pipeline: placeholder markers, keys, sample values
Lit ==
    [LABEL_OPEN |-> <<"$", "{", "l", "a", "b", "e", "l", ".">>,
     ANNOTATION_OPEN |-> <<"$", "{", "a", "n", "n", "o", "t", "a", "t", "i",
        "o", "n", ".">>,
     CLOSE_BRACE |-> <<"}">>,
     s_alertname |-> <<"a", "l", "e", "r", "t", "n", "a", "m", "e">>,
     s_PodCrashLoop |-> <<"P", "o", "d", "C", "r", "a", "s", "h", "L", "o",
        "o", "p">>,
     s_ServiceDown |-> <<"S", "e", "r", "v", "i", "c", "e", "D", "o", "w",
        "n">>,
     s_pod_name |-> <<"p", "o", "d", "_", "n", "a", "m", "e">>,
     s_web_1 |-> <<"w", "e", "b", "-", "1">>,
     s_namespace |-> <<"n", "a", "m", "e", "s", "p", "a", "c", "e">>,
     s_prod |-> <<"p", "r", "o", "d">>,
     s_vm_name |-> <<"v", "m", "_", "n", "a", "m", "e">>,
     s_db1 |-> <<"d", "b", "1">>,
     s_summary |-> <<"s", "u", "m", "m", "a", "r", "y">>,
     s_api |-> <<"a", "p", "i">>,
     s_dollar_brace |-> <<"$", "{">>,
     s_label_dot |-> <<"l", "a", "b", "e", "l", ".">>,
     s_annotation_dot |-> <<"a", "n", "n", "o", "t", "a", "t", "i", "o", "n",
        ".">>,
     s_unknown |-> <<"u", "n", "k", "n", "o", "w", "n">>]

(***************************************************************************)
(* self_healing._interpolate_params                                        *)
(***************************************************************************)
\* a placeholder test that forgets the "${" of the marker
InterpolateValue_LooseMarker(value, labels, annotations) ==
    IF IsStr(value)
    THEN IF StrIn(Lit.s_label_dot, value.v)
         THEN Get(labels,
                  SplitFirst(SplitSecond(value.v, Lit.s_label_dot), Lit.CLOSE_BRACE),
                  value)
         ELSE IF StrIn(Lit.s_annotation_dot, value.v)
         THEN Get(annotations,
                  SplitFirst(SplitSecond(value.v, Lit.s_annotation_dot), Lit.CLOSE_BRACE), value)
         ELSE value
    ELSE value

\* the branch of the loop body for one value (self_healing.py 121-132)
InterpolateValue(value, labels, annotations) ==
    IF IsStr(value)
    THEN IF StrIn(Lit.LABEL_OPEN, value.v)
         THEN LET label_key == SplitFirst(SplitSecond(value.v, Lit.LABEL_OPEN), Lit.CLOSE_BRACE)
              IN  Get(labels, label_key, value)
         ELSE IF StrIn(Lit.ANNOTATION_OPEN, value.v)
         THEN LET annotation_key ==
                      SplitFirst(SplitSecond(value.v, Lit.ANNOTATION_OPEN), Lit.CLOSE_BRACE)
              IN  Get(annotations, annotation_key, value)
         ELSE value
    ELSE value

_interpolate_params(params, labels, annotations) ==
    [key \in DOMAIN params |-> InterpolateValue(params[key], labels, annotations)]

(***************************************************************************)
(* self_healing._match_condition                                           *)
(***************************************************************************)
\* _match_condition in which a labels condition that also carries a status
\* must match on both
_match_condition_LabelsAndStatus(condition, labels, annotations, status) ==
    IF "label" \in DOMAIN condition /\ "value" \in DOMAIN condition
    THEN LET label_key == condition["label"]
             expected_value == condition["value"]
             fromLabels == Get(labels, label_key, None)
             actual_value == IF Truthy(fromLabels) THEN fromLabels
                             ELSE Get(annotations, label_key, None)
         IN  actual_value = expected_value
    ELSE IF "labels" \in DOMAIN condition
    THEN /\ \A key \in DOMAIN condition["labels"] :
                Get(labels, key, None) = condition["labels"][key]
         /\ "status" \in DOMAIN condition => status = condition["status"]
    ELSE IF "status" \in DOMAIN condition
    THEN status = condition["status"]
    ELSE FALSE


_match_condition(condition, labels, annotations, status) ==
    IF "label" \in DOMAIN condition /\ "value" \in DOMAIN condition
    THEN LET label_key == condition["label"]
             expected_value == condition["value"]
             fromLabels == Get(labels, label_key, None)
             actual_value == IF Truthy(fromLabels) THEN fromLabels
                             ELSE Get(annotations, label_key, None)
         IN  actual_value = expected_value
    ELSE IF "labels" \in DOMAIN condition
    THEN \A key \in DOMAIN condition["labels"] :
             Get(labels, key, None) = condition["labels"][key]
    ELSE IF "status" \in DOMAIN condition
    THEN status = condition["status"]
    ELSE FALSE

(***************************************************************************)
(* db.get_all_policies: ORDER BY priority ASC.  Rows of equal priority     *)
(* come back in an order the database chooses.                             *)
(***************************************************************************)

RECURSIVE AnyOrders(_)
\* the query without its ORDER BY: the rows in any order
AnyOrders(rows) ==
    IF rows = {} THEN {<<>>}
    ELSE UNION {{<<p>> \o rest : rest \in AnyOrders(rows \ {p})} : p \in rows}

get_all_policies_Unordered(rows) == AnyOrders(rows)

RECURSIVE PriorityOrders(_)
\* every listing of the rows in ascending priority
PriorityOrders(rows) ==
    \* the rows of least priority number
    LET LeastPriority(set) == {p \in set : \A q \in set : p.priority <= q.priority}
    IN
    IF rows = {} THEN {<<>>}
    ELSE UNION {{<<p>> \o rest : rest \in PriorityOrders(rows \ {p})} :
                    p \in LeastPriority(rows)}

get_all_policies(rows) == PriorityOrders(rows)

(***************************************************************************)
(* self_healing.evaluate_alert, given the list get_all_policies returned   *)
(***************************************************************************)
EntryLabels(alert_item) == Get(alert_item, "labels", EmptyDict)
EntryAnnotations(alert_item) == Get(alert_item, "annotations", EmptyDict)

Matches(policy, alert_item, status) ==
    _match_condition(policy.condition, EntryLabels(alert_item),
                     EntryAnnotations(alert_item), status)

\* the action built without interpolating its params
BuildAction_NoInterpolation(policy, alert_item) ==
    DictSet(DictSet(policy.action, "policy_name", policy.name),
            "alert_labels", EntryLabels(alert_item))

\* lines 42-50: the action built for a matched (entry, policy) pair
BuildAction(policy, alert_item) ==
    LET labels == EntryLabels(alert_item)
        annotations == EntryAnnotations(alert_item)
        a1 == DictSet(policy.action, "policy_name", policy.name)
        a2 == DictSet(a1, "alert_labels", labels)
    IN  IF "params" \in DOMAIN a2
        THEN DictSet(a2, "params", _interpolate_params(a2["params"], labels, annotations))
        ELSE a2

NoAction == [none |-> TRUE]

\* the inner loop (lines 37-50) for one entry: index of the first matching
\* policy of the list, 0 when none matches
FirstMatch(pols, alert_item, status) ==
    LET hits == {j \in 1..Len(pols) : Matches(pols[j], alert_item, status)}
    IN  IF hits = {} THEN 0 ELSE Min(hits)

RECURSIVE ScanEntries(_, _, _)
\* the outer loop (lines 30-50) from entry i on
ScanEntries(pols, alert, i) ==
    IF i > Len(alert.alerts) THEN NoAction
    ELSE LET j == FirstMatch(pols, alert.alerts[i], alert.status)
         IN  IF j # 0 THEN BuildAction(pols[j], alert.alerts[i])
             ELSE ScanEntries(pols, alert, i + 1)

evaluate_alert(pols, alert) ==
    IF Len(pols) = 0 THEN NoAction ELSE ScanEntries(pols, alert, 1)

(***************************************************************************)
(* evaluate_alert on Python objects: the dicts a Policy holds live on a    *)
(* heap, and a dict entry whose value is a dict holds a reference to it    *)
(***************************************************************************)
\* the heap after get_all_policies built the Policy objects (db.py 85-95):
\* for policy j its condition, its action and, where the action has one, the
\* params dict nested in it; in an action the key "params" holds a reference
Heap(pols) ==
    LET nested == {j \in 1..Len(pols) : "params" \in DOMAIN pols[j].action}
        addresses == {<<"condition", j>> : j \in 1..Len(pols)}
                     \cup {<<"action", j>> : j \in 1..Len(pols)}
                     \cup {<<"params", j>> : j \in nested}
    IN  [a \in addresses |->
            CASE a[1] = "condition" -> pols[a[2]].condition
              [] a[1] = "params" -> pols[a[2]].action["params"]
              [] OTHER ->
                    IF a[2] \in nested
                    THEN DictSet(pols[a[2]].action, "params", [ref |-> <<"params", a[2]>>])
                    ELSE pols[a[2]].action]

\* lines 42-50 with "action = policy.action" in place of the copy
BuildOnHeap_NoCopy(heap, pols, j, alert_item) ==
    LET labels == EntryLabels(alert_item)
        annotations == EntryAnnotations(alert_item)
        Store(h, a, k, v) == DictSet(h, a, DictSet(h[a], k, v))
        action == <<"action", j>>
        h2 == Store(heap, action, "policy_name", pols[j].name)
        h3 == Store(h2, action, "alert_labels", labels)
    IN  IF "params" \in DOMAIN h3[action]
        THEN LET result == <<"result", j>>
                 h4 == DictSet(h3, result,
                               _interpolate_params(h3[h3[action]["params"].ref],
                                                   labels, annotations))
             IN  [heap |-> Store(h4, action, "params", [ref |-> result]), ret |-> action]
        ELSE [heap |-> h3, ret |-> action]

\* lines 42-50 for the matched policy j: the heap they leave and the address
\* of the dict they return
BuildOnHeap(heap, pols, j, alert_item) ==
    LET labels == EntryLabels(alert_item)
        annotations == EntryAnnotations(alert_item)
        \* d[k] = v on the dict at address a
        Store(h, a, k, v) == DictSet(h, a, DictSet(h[a], k, v))
        \* line 42: dict.copy() makes a new dict with the same entries, the
        \* reference to the nested params dict among them
        action == <<"copy", j>>
        h1 == DictSet(heap, action, heap[<<"action", j>>])
        \* lines 43-44
        h2 == Store(h1, action, "policy_name", pols[j].name)
        h3 == Store(h2, action, "alert_labels", labels)
    IN  IF "params" \in DOMAIN h3[action]
        THEN \* line 48: _interpolate_params reads the nested dict and builds
             \* a new one (result = {}, line 118), which replaces the entry
             LET result == <<"result", j>>
                 h4 == DictSet(h3, result,
                               _interpolate_params(h3[h3[action]["params"].ref],
                                                   labels, annotations))
             IN  [heap |-> Store(h4, action, "params", [ref |-> result]), ret |-> action]
        ELSE [heap |-> h3, ret |-> action]

\* evaluate_alert on the heap: what it returns and the Policy objects as the
\* call leaves them
evaluate_alert_on_heap(pols, alert) ==
    LET \* the dict at address a with its nested params dict read through
        Read(h, a) ==
            [k \in DOMAIN h[a] |-> IF k = "params" THEN h[h[a][k].ref] ELSE h[a][k]]
        Held(h) ==
            [j \in 1..Len(pols) |->
                [pols[j] EXCEPT !.condition = h[<<"condition", j>>],
                                !.action = Read(h, <<"action", j>>)]]
        \* the entries some policy matches; the loops stop at the first
        hits == {i \in 1..Len(alert.alerts) :
                    FirstMatch(pols, alert.alerts[i], alert.status) # 0}
    IN  IF Len(pols) = 0 \/ hits = {}
        THEN [ret |-> NoAction, pols |-> Held(Heap(pols))]
        ELSE LET i == Min(hits)
                 j == FirstMatch(pols, alert.alerts[i], alert.status)
                 built == BuildOnHeap(Heap(pols), pols, j, alert.alerts[i])
             IN  [ret |-> Read(built.heap, built.ret), pols |-> Held(built.heap)]

(***************************************************************************)
(* Inputs: policies, alert entries, payloads                               *)
(***************************************************************************)

\* policies as the Policy Store holds them; "crash" is restart-on-crashloop
SamplePolicy ==
    LET Placeholder(open, key) == Str(open \o key \o Lit.CLOSE_BRACE)
    IN
    [crash |->
        [name |-> "restart-on-crashloop",
         condition |-> [labels |-> (Lit.s_alertname :> Str(Lit.s_PodCrashLoop))],
         action |-> [tool |-> "restart_pod",
                     params |-> [pod_name |-> Placeholder(Lit.LABEL_OPEN, Lit.s_pod_name),
                                 namespace |-> Placeholder(Lit.LABEL_OPEN, Lit.s_namespace)]],
         priority |-> 10],
     down |->
        [name |-> "restart-vm-on-down",
         condition |-> [label |-> Lit.s_alertname, value |-> Str(Lit.s_ServiceDown)],
         action |-> [tool |-> "mcp_restart_vm",
                     params |-> [vm_name |-> Placeholder(Lit.LABEL_OPEN, Lit.s_vm_name)]],
         priority |-> 20],
     firing |->
        [name |-> "restart-pod-on-firing",
         condition |-> [status |-> "firing"],
         action |-> [tool |-> "mcp_restart_pod",
                     params |-> [pod_name |-> Placeholder(Lit.LABEL_OPEN, Lit.s_pod_name)]],
         priority |-> 20],
     scale |->
        [name |-> "scale-on-resolved",
         condition |-> [status |-> "resolved"],
         action |-> [tool |-> "mcp_scale_deployment",
                     params |-> [deployment_name |-> Str(Lit.s_api), replicas |-> Num(3)]],
         priority |-> 30],
     expr |->
        [name |-> "expression-only",
         condition |-> [expression |-> Str(Lit.s_summary)],
         action |-> [tool |-> "mcp_query_prometheus"],
         priority |-> 5]]

PolicyPool ==
    {SamplePolicy.crash, SamplePolicy.down, SamplePolicy.firing, SamplePolicy.scale,
     SamplePolicy.expr}

\* alert entries; in "annotated" the alert name arrives as an annotation only,
\* and the entry has no vm_name
SampleEntry ==
    [crash |->
        [labels |-> (Lit.s_alertname :> Str(Lit.s_PodCrashLoop))
                    @@ (Lit.s_pod_name :> Str(Lit.s_web_1))
                    @@ (Lit.s_namespace :> Str(Lit.s_prod))],
     down |->
        [labels |-> (Lit.s_alertname :> Str(Lit.s_ServiceDown))
                    @@ (Lit.s_vm_name :> Str(Lit.s_db1)),
         annotations |-> (Lit.s_summary :> Str(Lit.s_api))],
     annotated |->
        [labels |-> (Lit.s_alertname :> Str(<<>>)),
         annotations |-> (Lit.s_alertname :> Str(Lit.s_ServiceDown))],
     bare |-> [annotations |-> (Lit.s_summary :> Str(Lit.s_api))]]

SeqsUpTo(S, n) == UNION {[1..k -> S] : k \in 0..n}

AlertPayloads ==
    LET EntryPool ==
            {SampleEntry.crash, SampleEntry.down, SampleEntry.annotated, SampleEntry.bare}
    IN
    {[status |-> st, alerts |-> es] :
        st \in {"firing", "resolved"}, es \in SeqsUpTo(EntryPool, MaxAlerts)}

(***************************************************************************)
(* Policy Store operations and the evaluator as a state machine            *)
(***************************************************************************)
NotCalled == [called |-> FALSE]
Idle == [pc |-> "idle"]

\* db.create_policy
CreatePolicy(p) ==
    /\ ~evalCall.called
    /\ p \notin policies
    /\ policies' = policies \cup {p}
    /\ UNCHANGED <<engineVars, evalVars, interpVars, pipeVars>>

\* db.delete_policy
DeletePolicy(p) ==
    /\ ~evalCall.called
    /\ p \in policies
    /\ policies' = policies \ {p}
    /\ UNCHANGED <<engineVars, evalVars, interpVars, pipeVars>>

\* one call of evaluate_alert: fetch the rows, scan, return
Evaluate(alert) ==
    /\ ~evalCall.called
    /\ \E pols \in get_all_policies(policies) :
        /\ evalCall' = [called |-> TRUE, alert |-> alert, pols |-> pols,
                        held |-> evaluate_alert_on_heap(pols, alert).pols]
        /\ evalResult' = evaluate_alert(pols, alert)
        /\ UNCHANGED <<engineVars, policies, interpVars, pipeVars>>

\* the caller has taken the result
EvaluateReturn ==
    /\ evalCall.called
    /\ evalCall' = NotCalled
    /\ evalResult' = NotCalled
    /\ UNCHANGED <<engineVars, policies, interpVars, pipeVars>>

Workers == {"w1", "w2"}

InitEval ==
    /\ policies = {}
    /\ evalCall = NotCalled
    /\ evalResult = NotCalled
    /\ interpIn = NotCalled
    /\ interpOut = NotCalled
    /\ queue = <<>>
    /\ worker = [w \in Workers |-> [pc |-> "poll"]]
    /\ jobLog = <<>>
    /\ invoked = <<>>
    /\ taken = 0
    /\ enqueued = <<>>
    /\ classify = Idle
    /\ route = Idle
    /\ clientCache = [d \in {"prometheus", "grafana", "vmware"} |-> FALSE]
    /\ verify = Idle
    /\ turn = Idle
    /\ cachedBy = [d \in {"prometheus", "grafana", "vmware"} |-> "none"]
    /\ singleton = [d \in {"prometheus", "grafana", "vmware"} |->
                       [client |-> 0, made |-> 0, started |-> {}]]
    /\ getter = [r \in {"r1", "r2"} |-> Idle]
    /\ matching = Idle

NextEval ==
    \/ \E p \in PolicyPool : CreatePolicy(p)
    \/ \E p \in PolicyPool : DeletePolicy(p)
    \/ \E alert \in AlertPayloads : Evaluate(alert)
    \/ EvaluateReturn

SpecEval == InitEval /\ [][NextEval]_vars

(***************************************************************************)
(* C1                                                                      *)
(***************************************************************************)
\* the returned action is policy p's: its name and its template's fields
IsActionOf(result, p) ==
    /\ result # NoAction
    /\ result["policy_name"] = p.name
    /\ \A k \in DOMAIN p.action \ {"params"} : result[k] = p.action[k]

LowestIn(p, M) == p \in M /\ \A q \in M : p.priority <= q.priority

EntryMatchers(rows, alert, i) == {p \in rows : Matches(p, alert.alerts[i], alert.status)}

MatchedEntries(rows, alert) ==
    {i \in 1..Len(alert.alerts) : EntryMatchers(rows, alert, i) # {}}

\* C1 as stated: evaluate_alert returns the action of the lowest-priority-number
\* policy among all policies whose condition matches some entry of the payload,
\* and no action when there is none.
C1_LowestOverPayload ==
    evalCall.called =>
        LET M == UNION {EntryMatchers(policies, evalCall.alert, i) :
                            i \in 1..Len(evalCall.alert.alerts)}
        IN  IF M = {} THEN evalResult = NoAction
            ELSE \E p \in M : LowestIn(p, M) /\ IsActionOf(evalResult, p)

\* C1 amended: evaluate_alert returns the action of a lowest-priority-number
\* policy among those matching the FIRST entry (payload order) that any policy
\* matches, built from that entry's labels; no action when no entry matches.
C1_LowestForFirstMatchedEntry ==
    evalCall.called =>
        LET E == MatchedEntries(policies, evalCall.alert)
        IN  IF E = {} THEN evalResult = NoAction
            ELSE LET M == EntryMatchers(policies, evalCall.alert, Min(E))
                 IN  /\ \E p \in M : LowestIn(p, M) /\ IsActionOf(evalResult, p)
                     /\ evalResult["alert_labels"] =
                            EntryLabels(evalCall.alert.alerts[Min(E)])

\* a call in which a later entry is matched by a policy of lower priority
\* number than every policy matching the first matched entry
C1_Witness ==
    /\ evalCall.called
    /\ evalResult # NoAction
    /\ LET E == MatchedEntries(policies, evalCall.alert)
       IN  /\ Cardinality(E) = 2
           /\ \E q \in UNION {EntryMatchers(policies, evalCall.alert, i) : i \in E} :
                 \A p \in EntryMatchers(policies, evalCall.alert, Min(E)) :
                     q.priority < p.priority

(***************************************************************************)
(* _interpolate_params on its own: parameter values assembled from         *)
(* fragments, so that a marker can also arise across a fragment boundary   *)
(***************************************************************************)

RECURSIVE Concat(_)
Concat(parts) == IF parts = <<>> THEN <<>> ELSE Head(parts) \o Concat(Tail(parts))

\* parameter dicts whose values are texts assembled from fragments of the
\* markers, a number, or None
ParamDicts ==
    LET Fragments == {Lit.LABEL_OPEN, Lit.ANNOTATION_OPEN, Lit.s_dollar_brace,
                      Lit.s_label_dot, Lit.s_annotation_dot, Lit.s_pod_name,
                      Lit.s_summary, Lit.CLOSE_BRACE}
        ParamTexts == {Concat(parts) : parts \in SeqsUpTo(Fragments, MaxFrags)}
        ParamValues == {Str(x) : x \in ParamTexts} \cup {Num(3), None}
    IN  {[p |-> v] : v \in ParamValues} \cup {[p |-> v, q |-> Num(3)] : v \in ParamValues}

Interpolate(params, labels, annotations) ==
    /\ ~interpIn.called
    /\ interpIn' = [called |-> TRUE, params |-> params, labels |-> labels,
                    annotations |-> annotations]
    /\ interpOut' = _interpolate_params(params, labels, annotations)
    /\ UNCHANGED <<engineVars, policies, evalVars, pipeVars>>

\* the caller has taken the result
InterpolateReturn ==
    /\ interpIn.called
    /\ interpIn' = NotCalled
    /\ interpOut' = NotCalled
    /\ UNCHANGED <<engineVars, policies, evalVars, pipeVars>>

NextInterp ==
    LET LabelDicts ==
            {EmptyDict, EntryLabels(SampleEntry.crash),
             (Lit.s_pod_name :> Num(3)) @@ (Lit.s_summary :> Str(Lit.s_db1))}
        AnnotationDicts ==
            {EmptyDict, EntryAnnotations(SampleEntry.down), (Lit.s_pod_name :> Str(Lit.s_prod))}
    IN
    \/ \E params \in ParamDicts, labels \in LabelDicts, annotations \in AnnotationDicts :
           Interpolate(params, labels, annotations)
    \/ InterpolateReturn

SpecInterp == InitEval /\ [][NextInterp]_vars

(***************************************************************************)
(* C9                                                                      *)
(***************************************************************************)
HasPlaceholderMarker(value) ==
    IsStr(value) /\ (StrIn(Lit.LABEL_OPEN, value.v) \/ StrIn(Lit.ANNOTATION_OPEN, value.v))

\* C9: _interpolate_params returns a dict with the same keys in which every
\* non-string value, and every string value containing neither "${label." nor
\* "${annotation.", is the value it was given, whatever the labels and
\* annotations are.
C9_IdentityWithoutMarker ==
    interpIn.called =>
        /\ DOMAIN interpOut = DOMAIN interpIn.params
        /\ \A key \in DOMAIN interpIn.params :
              ~HasPlaceholderMarker(interpIn.params[key])
                  => interpOut[key] = interpIn.params[key]

\* a call with a marker-free string that names a label present in the alert
\* ("label.pod_name", without the "${"), returned unchanged
C9_Witness ==
    /\ interpIn.called
    /\ interpIn.params["p"] = Str(Lit.s_label_dot \o Lit.s_pod_name)
    /\ Lit.s_pod_name \in DOMAIN interpIn.labels
    /\ interpOut["p"] = interpIn.params["p"]

(***************************************************************************)
(* Queue messages: api.receive_alert pushes json.dumps(action); the worker *)
(* reads the text back with json.loads                                     *)
(***************************************************************************)
\* json.dumps of a dict: the text of a JSON object
Dumps(action) == [fmt |-> "json_object", text |-> action]

\* json.loads: "dict" with the object, "other" for any other JSON value,
\* "JSONDecodeError" for text that does not parse
Loads(msg) ==
    CASE msg.fmt = "json_object" -> [kind |-> "dict", value |-> msg.text]
      [] msg.fmt = "json_array" -> [kind |-> "other", value |-> EmptyDict]
      [] OTHER -> [kind |-> "JSONDecodeError", value |-> EmptyDict]

\* redis LPUSH / BRPOP on a list whose left end is index 1
lpush(q, m) == <<m>> \o q

(***************************************************************************)
(* worker.TOOL_MAP and the handlers of tools/mcp_client.py: keyword        *)
(* parameters, whether the handler is a coroutine function, and the        *)
(* results it can return                                                   *)
(***************************************************************************)
TOOL_MAP ==
    [mcp_restart_vm |->
        [required |-> {"vm_name"}, optional |-> {}, coroutine |-> TRUE,
         results |-> {[status |-> "success"]}],
     mcp_restart_pod |->
        [required |-> {"pod_name"}, optional |-> {"namespace"}, coroutine |-> TRUE,
         results |-> {[status |-> "success"], [status |-> "error"]}],
     mcp_query_prometheus |->
        [required |-> {"query"}, optional |-> {}, coroutine |-> TRUE,
         results |-> {[status |-> "success"], [status |-> "simulated"],
                      [jsonrpc |-> "2.0"]}],
     mcp_get_grafana_dashboard |->
        [required |-> {"dashboard_id"}, optional |-> {}, coroutine |-> FALSE,
         results |-> {[status |-> "simulated"]}],
     mcp_scale_deployment |->
        [required |-> {"deployment_name", "replicas"}, optional |-> {"namespace"},
         coroutine |-> FALSE,
         results |-> {[status |-> "simulated"], [status |-> "error"]}]]

\* tool_func(**params) binds: every required parameter given, no unknown one
AcceptsKeywords(handler, params) ==
    /\ handler.required \subseteq DOMAIN params
    /\ DOMAIN params \subseteq handler.required \cup handler.optional

NoneName == "None"
\* str(params)
Repr(params) == [t |-> "repr", v |-> params]

\* params.get("vm_name") or params.get("pod_name") or
\* params.get("deployment_name") or "unknown"
Target(params) ==
    LET vm == Get(params, "vm_name", None)
        pod == Get(params, "pod_name", None)
        dep == Get(params, "deployment_name", None)
    IN  IF Truthy(vm) THEN vm
        ELSE IF Truthy(pod) THEN pod
        ELSE IF Truthy(dep) THEN dep
        ELSE Str(Lit.s_unknown)

\* the error texts process_task logs
UnknownToolError == [error |-> "Unknown tool"]
ExecutionError == [error |-> "Error executing"]

\* db.log_job: one row of job_logs
JobRow(action, target, status, result) ==
    [action |-> action, target |-> target, status |-> status, result |-> result]

HandlerCall(tool_name, params) == [tool |-> tool_name, params |-> params]

\* process_task without the Job Log Entry of the unknown-tool branch
process_task_SilentUnknown(task_data) ==
    LET tool_name == Get(task_data, "tool", NoneName)
        params == Get(task_data, "params", EmptyDict)
    IN  IF tool_name \notin DOMAIN TOOL_MAP
        THEN {[rows |-> <<>>, calls |-> <<>>]}
        ELSE {[rows |-> <<JobRow(tool_name, Target(params),
                                 Get(r, "status", "unknown"), r)>>,
               calls |-> <<HandlerCall(tool_name, params)>>] :
                 r \in TOOL_MAP[tool_name].results}

\* process_task whose except branch does not log
process_task_SilentExcept(task_data) ==
    LET tool_name == Get(task_data, "tool", NoneName)
        params == Get(task_data, "params", EmptyDict)
    IN  IF tool_name \notin DOMAIN TOOL_MAP
        THEN {[rows |-> <<JobRow(tool_name, Repr(params), "error", UnknownToolError)>>,
               calls |-> <<>>]}
        ELSE IF ~AcceptsKeywords(TOOL_MAP[tool_name], params)
        THEN {[rows |-> <<>>, calls |-> <<>>]}
        ELSE {[rows |-> <<JobRow(tool_name, Target(params),
                                 Get(r, "status", "unknown"), r)>>,
               calls |-> <<HandlerCall(tool_name, params)>>] :
                 r \in TOOL_MAP[tool_name].results}

\* worker.process_task(task_data): the possible outcomes, each the rows it
\* appends to the job log and the handler executions it causes
process_task(task_data) ==
    LET tool_name == Get(task_data, "tool", NoneName)
        params == Get(task_data, "params", EmptyDict)
    IN  IF tool_name \notin DOMAIN TOOL_MAP
        THEN \* lines 48-57: unknown tool, logged, nothing executed
             {[rows |-> <<JobRow(tool_name, Repr(params), "error", UnknownToolError)>>,
               calls |-> <<>>]}
        ELSE LET handler == TOOL_MAP[tool_name]
             IN  IF ~AcceptsKeywords(handler, params)
                 THEN \* TypeError from the call itself, caught at line 78
                      {[rows |-> <<JobRow(tool_name, Repr(params), "error",
                                          ExecutionError)>>,
                        calls |-> <<>>]}
                 ELSE IF ~handler.coroutine
                 THEN \* the function runs and returns a str; awaiting a str
                      \* raises TypeError, caught at line 78
                      {[rows |-> <<JobRow(tool_name, Repr(params), "error",
                                          ExecutionError)>>,
                        calls |-> <<HandlerCall(tool_name, params)>>]}
                 ELSE \* lines 61-74
                      {[rows |-> <<JobRow(tool_name, Target(params),
                                          Get(r, "status", "unknown"), r)>>,
                        calls |-> <<HandlerCall(tool_name, params)>>] :
                          r \in handler.results}

(***************************************************************************)
(* The pipeline: alert endpoint, queue, workers                            *)
(***************************************************************************)
\* scripts/load_sample_policies.py: the sample policies enter the table
LoadSamplePolicies ==
    /\ policies = {}
    /\ policies' = PolicyPool
    /\ UNCHANGED <<engineVars, evalVars, interpVars, pipeVars>>

\* webhook payloads sent to the alert endpoint
CrashAlert == [status |-> "firing", alerts |-> <<SampleEntry.crash>>]

WebhookPayloads ==
    {CrashAlert,
     [status |-> "resolved", alerts |-> <<SampleEntry.down>>],
     [status |-> "firing", alerts |-> <<SampleEntry.bare>>],
     [status |-> "resolved", alerts |-> <<SampleEntry.bare, SampleEntry.crash>>],
     [status |-> "firing", alerts |-> <<>>]}

\* api.receive_alert
ReceiveAlert(alert) ==
    \* Python truthiness of what evaluate_alert returned
    LET ActionTruthy(action) == action # NoAction /\ DOMAIN action # {}
    IN
    /\ Len(queue) + taken < MaxMsgs
    /\ \E pols \in get_all_policies(policies) :
          LET action == evaluate_alert(pols, alert)
          IN  IF ActionTruthy(action)
              THEN /\ queue' = lpush(queue, Dumps(action))
                   /\ enqueued' = Append(enqueued, Dumps(action))
              ELSE UNCHANGED <<queue, enqueued>>
    /\ UNCHANGED <<engineVars, policies, evalVars, interpVars, worker, jobLog, invoked, taken>>

\* any other Redis client pushing text onto the list
ExternalMessages ==
    \* text that is JSON but no object, and text that is no JSON at all
    LET ArrayMsg == [fmt |-> "json_array", text |-> EmptyDict]
        GarbageMsg == [fmt |-> "garbage", text |-> EmptyDict]
    IN
    {GarbageMsg, ArrayMsg,
     Dumps([tool |-> "mcp_restart_vm", params |-> [pod_name |-> Str(Lit.s_web_1)]]),
     Dumps([tool |-> "mcp_get_grafana_dashboard",
            params |-> [dashboard_id |-> Str(Lit.s_db1)]])}

ExternalPush(msg) ==
    /\ Len(queue) + taken < MaxMsgs
    /\ queue' = lpush(queue, msg)
    /\ enqueued' = Append(enqueued, msg)
    /\ UNCHANGED <<engineVars, policies, evalVars, interpVars, worker, jobLog, invoked, taken>>

\* brpop that reads the right end of the list without removing it
Brpop_Peek(w) ==
    /\ worker[w].pc = "poll"
    /\ queue # <<>>
    /\ worker' = [worker EXCEPT ![w] = [pc |-> "got", msg |-> queue[Len(queue)]]]
    /\ queue' = queue
    /\ taken' = taken + 1
    /\ UNCHANGED <<engineVars, policies, evalVars, interpVars, jobLog, invoked, enqueued>>

\* brpop that takes the message at the left end of the list, the newest
Brpop_LeftEnd(w) ==
    /\ worker[w].pc = "poll"
    /\ queue # <<>>
    /\ worker' = [worker EXCEPT ![w] = [pc |-> "got", msg |-> Head(queue)]]
    /\ queue' = Tail(queue)
    /\ taken' = taken + 1
    /\ UNCHANGED <<engineVars, policies, evalVars, interpVars, jobLog, invoked, enqueued>>

\* worker_loop line 105: brpop returns a message
Brpop(w) ==
    LET RightEnd(q) == q[Len(q)]
        WithoutRightEnd(q) == SubSeq(q, 1, Len(q) - 1)
    IN
    /\ worker[w].pc = "poll"
    /\ queue # <<>>
    /\ worker' = [worker EXCEPT ![w] = [pc |-> "got", msg |-> RightEnd(queue)]]
    /\ queue' = WithoutRightEnd(queue)
    /\ taken' = taken + 1
    /\ UNCHANGED <<engineVars, policies, evalVars, interpVars, jobLog, invoked, enqueued>>

\* worker_loop line 105: brpop times out on the empty list, loop again
BrpopTimeout(w) ==
    /\ worker[w].pc = "poll"
    /\ queue = <<>>
    /\ UNCHANGED vars

\* worker_loop in which whatever process_task or json.loads raises ends the loop
HandleMessage_Unguarded(w) ==
    /\ worker[w].pc = "got"
    /\ LET parsed == Loads(worker[w].msg)
           failed(out) == \E i \in DOMAIN out.rows : out.rows[i].result = ExecutionError
       IN  IF parsed.kind = "dict"
           THEN \E out \in process_task(parsed.value) :
                    /\ jobLog' = jobLog \o out.rows
                    /\ invoked' = invoked \o out.calls
                    /\ worker' = [worker EXCEPT ![w] =
                                     [pc |-> IF failed(out) THEN "stopped" ELSE "poll"]]
           ELSE /\ UNCHANGED <<jobLog, invoked>>
                /\ worker' = [worker EXCEPT ![w] = [pc |-> "stopped"]]
    /\ UNCHANGED <<engineVars, policies, evalVars, interpVars, queue, taken, enqueued>>

\* worker_loop lines 107-122: parse the message and process it
HandleMessage(w) ==
    /\ worker[w].pc = "got"
    /\ LET parsed == Loads(worker[w].msg)
       IN  IF parsed.kind = "dict"
           THEN \E out \in process_task(parsed.value) :
                    /\ jobLog' = jobLog \o out.rows
                    /\ invoked' = invoked \o out.calls
           ELSE \* JSONDecodeError (line 114), or task_data.get failing on a
                \* non-dict (line 120): printed, message dropped
                UNCHANGED <<jobLog, invoked>>
    /\ worker' = [worker EXCEPT ![w] = [pc |-> "poll"]]
    /\ UNCHANGED <<engineVars, policies, evalVars, interpVars, queue, taken, enqueued>>

\* worker_loop line 117: KeyboardInterrupt while waiting in brpop
Interrupt(w) ==
    /\ worker[w].pc = "poll"
    /\ worker' = [worker EXCEPT ![w] = [pc |-> "stopped"]]
    /\ UNCHANGED <<engineVars, policies, evalVars, interpVars, queue, jobLog, invoked, taken,
                    enqueued>>

Init == InitEval

Next ==
    \/ LoadSamplePolicies
    \/ \E alert \in WebhookPayloads : ReceiveAlert(alert)
    \/ \E msg \in ExternalMessages : ExternalPush(msg)
    \/ \E w \in Workers : Brpop(w)
    \/ \E w \in Workers : BrpopTimeout(w)
    \/ \E w \in Workers : HandleMessage(w)
    \/ \E w \in Workers : Interrupt(w)

Spec == Init /\ [][Next]_vars

\* each worker process keeps running its loop: a poll that can return a
\* message does, and a message in hand is processed
SpecWorkers ==
    Spec /\ \A w \in Workers : WF_vars(Brpop(w)) /\ WF_vars(HandleMessage(w))

(***************************************************************************)
(* C2                                                                      *)
(***************************************************************************)
\* the Action Descriptor of the crash-loop example
CrashAction ==
    [tool |-> "restart_pod",
     params |-> [pod_name |-> Str(Lit.s_web_1), namespace |-> Str(Lit.s_prod)],
     policy_name |-> "restart-on-crashloop",
     alert_labels |-> EntryLabels(SampleEntry.crash)]

\* every message, on the queue or in a worker's hand
Messages ==
    {queue[i] : i \in DOMAIN queue}
        \cup {worker[w].msg : w \in {x \in Workers : worker[x].pc = "got"}}

\* the crash-loop alert evaluates to CrashAction, and that is what is queued
\* for the policy restart-on-crashloop
C2_QueuedAsDescriptor ==
    /\ SamplePolicy.crash \in policies =>
          \A pols \in get_all_policies(policies) :
              evaluate_alert(pols, CrashAlert) = CrashAction
    /\ \A m \in Messages :
          (m.fmt = "json_object"
              /\ Get(m.text, "policy_name", NoneName) = "restart-on-crashloop")
                => m = Dumps(CrashAction)

RowsOf(tool_name) == {i \in DOMAIN jobLog : jobLog[i].action = tool_name}
CallsOf(tool_name) == {i \in DOMAIN invoked : invoked[i].tool = tool_name}

\* C2 as stated: the crash-loop alert is queued as {tool: restart_pod, params:
\* {pod_name: web-1, namespace: prod}, policy_name: restart-on-crashloop}, and
\* when the worker has logged it, the handler mapped to restart_pod was invoked.
C2_HandlerInvoked ==
    /\ C2_QueuedAsDescriptor
    /\ RowsOf("restart_pod") # {} => CallsOf("restart_pod") # {}

\* C2 amended: the alert is queued as that descriptor; the worker dequeues it,
\* finds no handler under the name restart_pod in the dispatch table, runs no
\* handler and appends a Job Log Entry with status "error" (unknown tool).
C2_QueuedThenLoggedUnknown ==
    /\ C2_QueuedAsDescriptor
    /\ CallsOf("restart_pod") = {}
    /\ \A i \in RowsOf("restart_pod") :
          jobLog[i] = JobRow("restart_pod", Repr(CrashAction["params"]), "error",
                             UnknownToolError)

\* the descriptor went through the queue and a worker, and its row is logged
C2_Witness ==
    /\ RowsOf("restart_pod") # {}
    /\ taken > 0
    /\ queue = <<>>

(***************************************************************************)
(* C5                                                                      *)
(***************************************************************************)
HoldsDescriptor(w) ==
    worker[w].pc = "got" /\ Loads(worker[w].msg).kind = "dict"

HoldsUnknownTool(w) ==
    /\ HoldsDescriptor(w)
    /\ Get(worker[w].msg.text, "tool", NoneName) \notin DOMAIN TOOL_MAP

Finishes(w) == worker[w].pc = "got" /\ worker'[w].pc # "got"

\* C5: the step in which a worker processes a dequeued action whose tool is
\* not in the dispatch table executes no handler, appends one Job Log Entry
\* with status "error" for that tool, and leaves the worker polling again.
C5_UnknownToolStep ==
    \A w \in Workers :
        (HoldsUnknownTool(w) /\ Finishes(w)) =>
            /\ invoked' = invoked
            /\ Len(jobLog') = Len(jobLog) + 1
            /\ jobLog'[Len(jobLog')].status = "error"
            /\ jobLog'[Len(jobLog')].action = Get(worker[w].msg.text, "tool", NoneName)
            /\ SubSeq(jobLog', 1, Len(jobLog)) = jobLog
            /\ worker'[w].pc = "poll"

C5_UnknownToolLoggedLoopContinues == [][C5_UnknownToolStep]_vars

\* an unknown tool was logged as an error and an action queued after it was
\* dequeued, executed and logged as a success
C5_Witness ==
    \E i, j \in DOMAIN jobLog :
        /\ i < j
        /\ jobLog[i].result = UnknownToolError
        /\ jobLog[j].status = "success"
        /\ CallsOf(jobLog[j].action) # {}

(***************************************************************************)
(* C10                                                                     *)
(***************************************************************************)
\* C10: the job log grows by exactly one row in every step in which a worker
\* processes a message that parsed as an Action Descriptor (unknown tool,
\* failing call, or returning handler), and changes in no other step.
C10_OneRowStep ==
    /\ \A w \in Workers :
          (HoldsDescriptor(w) /\ Finishes(w)) =>
              /\ Len(jobLog') = Len(jobLog) + 1
              /\ SubSeq(jobLog', 1, Len(jobLog)) = jobLog
    /\ jobLog' # jobLog => \E w \in Workers : HoldsDescriptor(w) /\ Finishes(w)

C10_ExactlyOneRowPerDescriptor == [][C10_OneRowStep]_vars

\* the three cases have all happened: unknown tool, raising call, returning handler
C10_Witness ==
    \E i, j, k \in DOMAIN jobLog :
        /\ jobLog[i].result = UnknownToolError
        /\ jobLog[j].result = ExecutionError
        /\ jobLog[k].status = "success"

(***************************************************************************)
(* engine.is_server_error: is a backend response a server-unavailability   *)
(* error                                                                   *)
(***************************************************************************)
MaxWords == 2       \* fragments concatenated into one error text

\* the character strings of the engine and its clients: tables of str.lower and
\* of the digits, the markers of is_server_error, error texts, sample values
ELit ==
    [UPPER |-> <<"A", "B", "C", "D", "E", "F", "G", "H", "I", "J", "K", "L",
        "M", "N", "O", "P", "Q", "R", "S", "T", "U", "V", "W", "X", "Y", "Z">>,
     LOWER |-> <<"a", "b", "c", "d", "e", "f", "g", "h", "i", "j", "k", "l",
        "m", "n", "o", "p", "q", "r", "s", "t", "u", "v", "w", "x", "y", "z">>,
     DIGITS |-> <<"0", "1", "2", "3", "4", "5", "6", "7", "8", "9">>,
     s_None |-> <<"N", "o", "n", "e">>,
     m_connection |-> <<"c", "o", "n", "n", "e", "c", "t", "i", "o", "n">>,
     m_server_not_accessible |-> <<"s", "e", "r", "v", "e", "r", " ", "n", "o",
        "t", " ", "a", "c", "c", "e", "s", "s", "i", "b", "l", "e">>,
     m_failed_to_initialize |-> <<"f", "a", "i", "l", "e", "d", " ", "t", "o",
        " ", "i", "n", "i", "t", "i", "a", "l", "i", "z", "e">>,
     m_all_connection_attempts_failed |-> <<"a", "l", "l", " ", "c", "o", "n",
        "n", "e", "c", "t", "i", "o", "n", " ", "a", "t", "t", "e", "m", "p", "t",
        "s", " ", "f", "a", "i", "l", "e", "d">>,
     m_http |-> <<"h", "t", "t", "p">>,
     m_404 |-> <<"4", "0", "4">>,
     m_503 |-> <<"5", "0", "3">>,
     s_error |-> <<"e", "r", "r", "o", "r">>,
     s_success |-> <<"s", "u", "c", "c", "e", "s", "s">>,
     s_Error |-> <<"E", "r", "r", "o", "r">>,
     s_refused |-> <<" ", "r", "e", "f", "u", "s", "e", "d">>,
     s_Connection |-> <<"C", "o", "n", "n", "e", "c", "t", "i", "o", "n">>,
     s_invalid_argument |-> <<"i", "n", "v", "a", "l", "i", "d", " ", "a", "r",
        "g", "u", "m", "e", "n", "t">>,
     s_HTTP |-> <<"H", "T", "T", "P", " ">>,
     s_50 |-> <<"5", "0">>,
     s_3 |-> <<"3">>,
     s_Server_Not |-> <<"S", "e", "r", "v", "e", "r", " ", "N", "o", "t",
        " ">>,
     s_Accessible |-> <<"A", "c", "c", "e", "s", "s", "i", "b", "l", "e">>,
     s_timeout |-> <<"t", "i", "m", "e", "o", "u", "t">>,
     s_Failed_to |-> <<"F", "a", "i", "l", "e", "d", " ", "t", "o", " ">>,
     s_initialize |-> <<"i", "n", "i", "t", "i", "a", "l", "i", "z", "e">>,
     s_Invalid_JSON_response |-> <<"I", "n", "v", "a", "l", "i", "d", " ", "J",
        "S", "O", "N", " ", "r", "e", "s", "p", "o", "n", "s", "e">>,
     s_colon |-> <<":", " ">>,
     s_oops |-> <<"o", "o", "p", "s">>,
     s_Tool_not_found |-> <<"T", "o", "o", "l", " ", "n", "o", "t", " ", "f",
        "o", "u", "n", "d", " ", "i", "n", " ", "M", "C", "P", " ", "c", "o", "n",
        "f", "i", "g", "u", "r", "a", "t", "i", "o", "n">>,
     s_Node_Exporter_Full |-> <<"N", "o", "d", "e", " ", "E", "x", "p", "o",
        "r", "t", "e", "r", " ", "F", "u", "l", "l">>,
     s_abc123 |-> <<"a", "b", "c", "1", "2", "3">>,
     s_K8s_Node_Exporter |-> <<"K", "8", "s", " ", "N", "o", "d", "e", " ",
        "E", "x", "p", "o", "r", "t", "e", "r">>,
     s_k8s1 |-> <<"k", "8", "s", "1">>,
     s_x9 |-> <<"x", "9">>,
     s_node_exporter |-> <<"n", "o", "d", "e", " ", "e", "x", "p", "o", "r",
        "t", "e", "r">>,
     s_Node_EXPORTER |-> <<"N", "o", "d", "e", " ", "E", "X", "P", "O", "R",
        "T", "E", "R">>,
     s_disk_usage |-> <<"d", "i", "s", "k", " ", "u", "s", "a", "g", "e">>,
     s_up |-> <<"u", "p">>,
     s_call_ |-> <<"c", "a", "l", "l", "_">>]

\* Python: str.lower(), one character
LowerChar(c) ==
    IF \E i \in 1..Len(ELit.UPPER) : ELit.UPPER[i] = c
    THEN ELit.LOWER[CHOOSE i \in 1..Len(ELit.UPPER) : ELit.UPPER[i] = c]
    ELSE c

\* Python: s.lower()
Lower(s) == [i \in 1..Len(s) |-> LowerChar(s[i])]

\* Python: str(n) for an int n >= 0
RECURSIVE StrOfNat(_)
StrOfNat(n) ==
    IF n < 10 THEN <<ELit.DIGITS[n + 1]>>
    ELSE StrOfNat(n \div 10) \o <<ELit.DIGITS[(n % 10) + 1]>>

\* Python: str(x)
PyStr(x) ==
    CASE x.t = "str" -> x.v
      [] x.t = "int" -> StrOfNat(x.v)
      [] x.t = "none" -> ELit.s_None

\* a dict response
Dict(d) == [t |-> "dict", v |-> d]

\* is_server_error with the .lower() call left out
is_server_error_CaseSensitive(response) ==
    IF response.t # "dict" THEN FALSE
    ELSE LET error_field == Get(response.v, "error", Str(<<>>))
             error_msg == IF Truthy(error_field) THEN PyStr(error_field) ELSE <<>>
         IN  /\ Get(response.v, "status", None) = Str(ELit.s_error)
             /\ \/ StrIn(ELit.m_connection, error_msg)
                \/ StrIn(ELit.m_server_not_accessible, error_msg)
                \/ StrIn(ELit.m_failed_to_initialize, error_msg)
                \/ StrIn(ELit.m_all_connection_attempts_failed, error_msg)
                \/ StrIn(ELit.m_http, error_msg)
                \/ StrIn(ELit.m_404, error_msg)
                \/ StrIn(ELit.m_503, error_msg)

is_server_error(response) ==
    IF response.t # "dict" THEN FALSE
    ELSE LET error_field == Get(response.v, "error", Str(<<>>))
             error_msg == IF Truthy(error_field) THEN Lower(PyStr(error_field)) ELSE <<>>
         IN  /\ Get(response.v, "status", None) = Str(ELit.s_error)
             /\ \/ StrIn(ELit.m_connection, error_msg)
                \/ StrIn(ELit.m_server_not_accessible, error_msg)
                \/ StrIn(ELit.m_failed_to_initialize, error_msg)
                \/ StrIn(ELit.m_all_connection_attempts_failed, error_msg)
                \/ StrIn(ELit.m_http, error_msg)
                \/ StrIn(ELit.m_404, error_msg)
                \/ StrIn(ELit.m_503, error_msg)

(***************************************************************************)
(* Inputs of the classifier: responses with and without the two fields,    *)
(* error texts assembled from fragments in either case, and non-dicts      *)
(***************************************************************************)
Responses ==
    LET ErrorFragments ==
            {ELit.m_connection, ELit.s_refused, ELit.s_Connection,
             ELit.s_invalid_argument, ELit.s_HTTP, ELit.m_404, ELit.s_50, ELit.s_3,
             ELit.s_Server_Not, ELit.s_Accessible, ELit.s_timeout, ELit.s_Failed_to,
             ELit.s_initialize}
        ErrorTexts == {Concat(parts) : parts \in SeqsUpTo(ErrorFragments, MaxWords)}
        ErrorFields == {Str(x) : x \in ErrorTexts} \cup {None, Num(0), Num(404), Num(500)}
        StatusFields == {Str(ELit.s_error), Str(ELit.s_Error), Str(ELit.s_success), None}
    IN  {Dict(("status" :> st) @@ ("error" :> ef)) : st \in StatusFields, ef \in ErrorFields}
            \cup {Dict("status" :> st) : st \in StatusFields}
            \cup {Dict("error" :> ef) : ef \in ErrorFields}
            \cup {Dict(EmptyDict), None, Str(ELit.m_connection), [t |-> "list", v |-> <<>>]}

\* one call of is_server_error
Classify(response) ==
    /\ classify.pc = "idle"
    /\ classify' = [pc |-> "returned", response |-> response,
                    result |-> is_server_error(response)]
    /\ UNCHANGED <<policies, evalVars, interpVars, pipeVars, route, clientCache, verify, turn,
                   cachedBy, getterVars, matching>>

\* the caller has taken the result
ClassifyReturn ==
    /\ classify.pc = "returned"
    /\ classify' = Idle
    /\ UNCHANGED <<policies, evalVars, interpVars, pipeVars, route, clientCache, verify, turn,
                   cachedBy, getterVars, matching>>

NextClassify ==
    \/ \E response \in Responses : Classify(response)
    \/ ClassifyReturn

SpecClassify == InitEval /\ [][NextClassify]_vars

(***************************************************************************)
(* C8: is_server_error(response) is true exactly when response is a map    *)
(* whose status is "error" and whose error text contains, ignoring case,   *)
(* one of the seven markers; {status: error, error: "connection refused"}  *)
(* is a server-unavailability error, {status: error, error: "invalid       *)
(* argument"} is not.                                                      *)
(***************************************************************************)
Markers ==
    {ELit.m_connection, ELit.m_server_not_accessible, ELit.m_failed_to_initialize,
     ELit.m_all_connection_attempts_failed, ELit.m_http, ELit.m_404, ELit.m_503}

\* the text of the response's error field: empty when there is none
ErrorText(response) ==
    IF "error" \in DOMAIN response.v /\ response.v["error"].t # "none"
    THEN PyStr(response.v["error"])
    ELSE <<>>

\* marker occurs in text, letters compared without regard to case
ContainsIgnoringCase(text, marker) ==
    \E i \in 1..(Len(text) + 1) :
        /\ i + Len(marker) - 1 <= Len(text)
        /\ \A j \in 1..Len(marker) : LowerChar(text[i + j - 1]) = LowerChar(marker[j])

IsUnavailability(response) ==
    /\ response.t = "dict"
    /\ "status" \in DOMAIN response.v
    /\ response.v["status"] = Str(ELit.s_error)
    /\ \E marker \in Markers : ContainsIgnoringCase(ErrorText(response), marker)

ConnectionRefused ==
    Dict(("status" :> Str(ELit.s_error))
         @@ ("error" :> Str(ELit.m_connection \o ELit.s_refused)))

InvalidArgument ==
    Dict(("status" :> Str(ELit.s_error)) @@ ("error" :> Str(ELit.s_invalid_argument)))

\* C8: the result of every call equals the characterisation, and the two
\* named responses are classified as stated
C8_ServerErrorCharacterised ==
    classify.pc = "returned" =>
        /\ classify.result = IsUnavailability(classify.response)
        /\ classify.response = ConnectionRefused => classify.result
        /\ classify.response = InvalidArgument => ~classify.result

\* a mixed-case error text with a marker has been classified as unavailability
C8_Witness ==
    /\ classify.pc = "returned"
    /\ classify.response =
           Dict(("status" :> Str(ELit.s_error))
                @@ ("error" :> Str(ELit.s_Connection \o ELit.s_refused)))
    /\ classify.result

(***************************************************************************)
(* The MCP backends as the router sees them: one HTTP exchange either      *)
(* raises in the HTTP library or yields a status code, a body text and,    *)
(* when the body parses, its JSON value                                    *)
(***************************************************************************)
MaxDashboards == 2  \* dashboards in one list_dashboards answer

\* a Python str that the code only compares for equality
Name(s) == [t |-> "name", v |-> s]

List(items) == [t |-> "list", v |-> items]

\* a Python str holding the JSON text of value
JsonText(value) == [t |-> "json", v |-> value]

\* response.json() of a body that is no JSON
NotJson == [t |-> "invalid", v |-> 0]

\* Python: isinstance(x, dict) and k in x
HasKey(x, k) == x.t = "dict" /\ k \in DOMAIN x.v

Response(code, text, body) ==
    [kind |-> "response", status_code |-> code, text |-> text, body |-> body]

\* exchanges that do not end in a 200 answer with a JSON body
FailedExchanges ==
    LET ConnectError(text) == [kind |-> "exception", text |-> text]
    IN
    {ConnectError(ELit.s_Connection \o ELit.s_refused), ConnectError(<<>>),
     Response(500, ELit.s_oops, NotJson), Response(404, <<>>, NotJson),
     Response(200, ELit.s_oops, NotJson)}

\* a tools/call request and a liveness probe as recorded on the wire, each
\* with the exchange x it came to
Request(backend, tool, arguments, x) ==
    [backend |-> backend, kind |-> "tools/call", tool |-> tool,
     arguments |-> arguments, answer |-> x]

Probe(backend, x) ==
    [backend |-> backend, kind |-> "probe", tool |-> "",
     arguments |-> Dict(EmptyDict), answer |-> x]

\* the error dict the clients build; key is "method" or "tool"
ErrorDict(text, key, who) ==
    Dict(("status" :> Str(ELit.s_error)) @@ ("error" :> Str(text)) @@ (key :> Name(who)))

\* the dict a client returns for one exchange: the body of a 200 answer that
\* parses, else an error dict
ClientResult(x, key, who) ==
    IF x.kind = "exception" THEN ErrorDict(x.text, key, who)
    ELSE IF x.status_code = 200
         THEN IF x.body = NotJson
              THEN ErrorDict(ELit.s_Invalid_JSON_response, key, who)
              ELSE x.body
         ELSE ErrorDict(ELit.s_HTTP \o StrOfNat(x.status_code) \o ELit.s_colon \o x.text,
                        key, who)

\* ESXiMCPClient.start_server, PrometheusMCPClient.start_server
start_server(x) == x.kind = "response" /\ x.status_code = 200

\* GrafanaMCPClient.start_server
grafana_start_server(x) ==
    /\ x.kind = "response"
    /\ x.status_code = 200
    /\ HasKey(x.body, "result")
    /\ HasKey(x.body.v["result"], "serverInfo")
    /\ x.body.v["result"].v["serverInfo"].t = "dict"

\* JSON bodies of 200 answers
Body ==
    [ServerInfo |-> Dict("result" :> Dict("serverInfo" :> Dict("name" :> Name("grafana")))),
     PlainAnswer |-> Dict("result" :> Dict("content" :> List(<<>>))),
     RpcError |-> Dict("error" :> Dict("code" :> Num(32601)))]

\* what a probe can come to
ProbeExchanges ==
    FailedExchanges \cup {Response(200, <<>>, Body.ServerInfo),
                          Response(200, <<>>, Body.RpcError)}

\* what a tools/call can come to, for the backends whose answer the router
\* only forwards
CallExchanges ==
    FailedExchanges \cup {Response(200, <<>>, Body.PlainAnswer),
                          Response(200, <<>>, Body.RpcError)}

\* get_esxi_mcp_client / get_prometheus_mcp_client / get_grafana_mcp_client:
\* the cached client, else a new one that stays cached only if its probe is
\* one of the exchanges on which start_server returns True
GetClient(backend, cache, started) ==
    IF cache[backend]
    THEN {[client |-> TRUE, sent |-> <<>>, cache |-> cache]}
    ELSE {[client |-> x \in started, sent |-> <<Probe(backend, x)>>,
           cache |-> [cache EXCEPT ![backend] = x \in started]] : x \in ProbeExchanges}

get_esxi_mcp_client(cache) ==
    GetClient("vmware", cache, {x \in ProbeExchanges : start_server(x)})

get_prometheus_mcp_client(cache) ==
    GetClient("prometheus", cache, {x \in ProbeExchanges : start_server(x)})

get_grafana_mcp_client(cache) ==
    GetClient("grafana", cache, {x \in ProbeExchanges : grafana_start_server(x)})

(***************************************************************************)
(* Client calls: the dict returned and the request put on the wire         *)
(***************************************************************************)
\* mcp_tools of the default configuration
PROMETHEUS_TOOLS ==
    {"health_check", "execute_query", "execute_range_query", "list_metrics",
     "get_metric_metadata", "get_targets"}

GRAFANA_TOOLS == {"list_dashboards", "get_dashboard", "list_datasources"}

Called(result, sent) == [result |-> result, sent |-> sent]

\* ESXiMCPClient.call_method
ESXi_call_method(method_name, params) ==
    {Called(ClientResult(x, "method", method_name),
            <<Request("vmware", method_name, params, x)>>) : x \in CallExchanges}

\* PrometheusMCPClient.execute_tool
Prometheus_execute_tool(tool_name, parameters) ==
    IF tool_name \notin PROMETHEUS_TOOLS
    THEN {Called(ErrorDict(ELit.s_Tool_not_found, "tool", tool_name), <<>>)}
    ELSE {Called(ClientResult(x, "method", tool_name),
                 <<Request("prometheus", tool_name, parameters, x)>>) : x \in CallExchanges}

\* GrafanaMCPClient.execute_tool, the backend answering with one of Exchanges
Grafana_execute_tool(tool_name, parameters, Exchanges) ==
    IF tool_name \notin GRAFANA_TOOLS
    THEN {Called(ErrorDict(ELit.s_Tool_not_found, "tool", tool_name), <<>>)}
    ELSE {Called(ClientResult(x, "tool", tool_name),
                 <<Request("grafana", tool_name, parameters, x)>>) : x \in Exchanges}

(***************************************************************************)
(* What a run of the router comes to: a returned str or a raised           *)
(* exception, the requests sent, the client cache afterwards               *)
(***************************************************************************)
NoDetail == [none |-> TRUE]

\* a returned str: a fixed text and what the f-string puts into it
Text(text, detail) == [t |-> "str", text |-> text, detail |-> detail]

\* Python: json.dumps(value)
json_dumps(value) == Text("json.dumps", [json |-> value])

Raise(exc) == [t |-> "raise", exc |-> exc]

Run(ret, sent, cache) == [ret |-> ret, sent |-> sent, cache |-> cache]

\* the fixed parts of the strings the router returns
MSG ==
    [NOT_SUPPORTED |-> "Command not supported: ",
     ERROR_EXECUTING |-> "Error executing command: ",
     K8S_NOT_ACCESSIBLE |-> "Error: Kubernetes MCP server not accessible: ",
     K8S_HEALTH_FAILED |-> "Error: Kubernetes MCP server health check failed (status ",
     K8S_HTTP |-> "Error: HTTP (status) from Kubernetes MCP server",
     K8S_FAILED_TO_CONNECT |-> "Error: Failed to connect to Kubernetes MCP server: ",
     MISSING_QUERY |-> "Error: Missing required parameter 'query' for Prometheus query",
     UNSUPPORTED_PROMETHEUS |-> "Error: Unsupported Prometheus action: ",
     GRAFANA_NOT_ACCESSIBLE |-> "Error: Grafana MCP server is not accessible. Please check server configuration and connectivity.",
     NO_DASHBOARD_FOUND |-> "Error: No dashboard found with title containing ",
     FAILED_TO_SEARCH |-> "Error: Failed to search dashboards by name: ",
     COULD_NOT_RETRIEVE |-> "Error: Could not retrieve dashboard list for name search",
     VMWARE_NOT_ACCESSIBLE |-> "Error: VMware MCP server is not accessible. Please check server configuration and connectivity.",
     VM_INFO_UNSUPPORTED |-> "Error: VMware MCP server does not support detailed VM info/status operations. Available operations: list, create, clone, power_on, power_off, delete.",
     NoCallMethod |-> "'AsyncClient' object has no attribute 'call_method'"]

\* the fallback at the end of the try block
NotSupported(cmd, sent, cache) == {Run(Text(MSG.NOT_SUPPORTED, [cmd |-> cmd]), sent, cache)}

(***************************************************************************)
(* route_infra_command, kubernetes branch                                  *)
(***************************************************************************)
resource_map ==
    ("pods" :> "pods") @@ ("pod" :> "pods") @@ ("deployments" :> "deployments")
        @@ ("deployment" :> "deployments") @@ ("services" :> "services")
        @@ ("service" :> "services") @@ ("nodes" :> "nodes") @@ ("node" :> "nodes")
        @@ ("namespaces" :> "namespaces") @@ ("namespace" :> "namespaces")

\* the POST of kubectl_get / ping and what is returned for it
KubernetesPost(tool, arguments, sent, cache) ==
    {Run(IF x.kind = "exception"
         THEN Text(MSG.K8S_FAILED_TO_CONNECT, [error |-> x.text])
         ELSE IF x.status_code = 200
              THEN IF x.body = NotJson
                   THEN Text(MSG.K8S_FAILED_TO_CONNECT, [exc |-> "JSONDecodeError"])
                   ELSE json_dumps(x.body)
              ELSE Text(MSG.K8S_HTTP, [code |-> x.status_code]),
         sent \o <<Request("kubernetes", tool, arguments, x)>>, cache) : x \in CallExchanges}

KubernetesActions(cmd, sent, cache) ==
    \* resource_map.get(resource, resource)
    LET kube_resource(resource) ==
            IF resource.t = "name" /\ resource.v \in DOMAIN resource_map
            THEN Name(resource_map[resource.v])
            ELSE resource
        \* the actions whose branch calls client.call_method on the httpx client
        \* left over from the health check
        K8S_CLIENT_ACTIONS ==
            {"describe", "delete", "scale", "restart", "logs", "exec", "create", "apply",
             "patch", "rollout", "context", "generic", "node_management", "install_helm",
             "upgrade_helm", "uninstall_helm", "explain", "list_api_resources"}
        \* params: namespace is added unless it equals "default"
        WithNamespace(params, namespace) ==
            IF namespace # Name("default") THEN DictSet(params, "namespace", namespace)
            ELSE params
        \* Python: int(x)
        IntRaises(x) ==
            CASE x.t = "int" -> FALSE
              [] x.t = "str" ->
                    \/ x.v = <<>>
                    \/ \E i \in 1..Len(x.v) :
                          \A d \in 1..Len(ELit.DIGITS) : ELit.DIGITS[d] # x.v[i]
              [] OTHER -> TRUE
    IN
    LET action == Get(cmd, "action", None)
        resource == Get(cmd, "resource", None)
        namespace == Get(cmd, "namespace", Name("default"))
    IN  CASE action \in {Name("list"), Name("get")} ->
                 KubernetesPost("kubectl_get",
                     Dict(WithNamespace("resourceType" :> kube_resource(resource),
                                        namespace)),
                     sent, cache)
          [] action = Name("scale") /\ IntRaises(Get(cmd, "replicas", Num(1))) ->
                 {Run(Raise("int() rejects replicas"), sent, cache)}
          [] action.t = "name" /\ action.v \in K8S_CLIENT_ACTIONS ->
                 {Run(Raise(MSG.NoCallMethod), sent, cache)}
          [] action = Name("ping") ->
                 KubernetesPost("ping", Dict(EmptyDict), sent, cache)
          [] OTHER -> NotSupported(cmd, sent, cache)

\* the kubernetes branch going on to the action whatever the health check
\* came to
KubernetesBranch_IgnoringHealth(cmd, cache) ==
    UNION {KubernetesActions(cmd, <<Probe("kubernetes", h)>>, cache) : h \in ProbeExchanges}

\* health check first, then the action
KubernetesBranch(cmd, cache) ==
    UNION {IF h.kind = "exception"
           THEN {Run(Text(MSG.K8S_NOT_ACCESSIBLE, [error |-> h.text]),
                     <<Probe("kubernetes", h)>>, cache)}
           ELSE IF h.status_code # 200
           THEN {Run(Text(MSG.K8S_HEALTH_FAILED, [code |-> h.status_code]),
                     <<Probe("kubernetes", h)>>, cache)}
           ELSE KubernetesActions(cmd, <<Probe("kubernetes", h)>>, cache)
           : h \in ProbeExchanges}

(***************************************************************************)
(* route_infra_command, prometheus branch                                  *)
(***************************************************************************)
\* one execute_tool call whose result is returned as JSON text
ForwardPrometheus(tool_name, parameters, sent, cache) ==
    {Run(json_dumps(c.result), sent \o c.sent, cache)
        : c \in Prometheus_execute_tool(tool_name, parameters)}

\* params[key] = cmd.get(key), when that is truthy
WithOptional(params, cmd, key) ==
    IF Truthy(Get(cmd, key, None)) THEN DictSet(params, key, cmd[key]) ELSE params

PrometheusActions(cmd, sent, cache) ==
    LET action == Get(cmd, "action", None)
        query == Get(cmd, "query", None)
    IN  CASE action = Name("query") ->
                 IF ~Truthy(query)
                 THEN {Run(Text(MSG.MISSING_QUERY, NoDetail), sent, cache)}
                 ELSE ForwardPrometheus("execute_query", Dict("query" :> query),
                                        sent, cache)
          [] action = Name("health") ->
                 ForwardPrometheus("health_check", Dict(EmptyDict), sent, cache)
          [] action = Name("list_metrics") ->
                 ForwardPrometheus("list_metrics",
                     Dict(WithOptional(WithOptional(EmptyDict, cmd, "limit"),
                                       cmd, "filter_pattern")),
                     sent, cache)
          [] OTHER ->
                 IF action.t = "name" /\ action.v \in PROMETHEUS_TOOLS
                 THEN ForwardPrometheus(action.v, Dict(cmd), sent, cache)
                 ELSE {Run(Text(MSG.UNSUPPORTED_PROMETHEUS, [action |-> action]),
                           sent, cache)}

PrometheusBranch(cmd, cache) ==
    UNION {IF g.client
           THEN PrometheusActions(cmd, g.sent, g.cache)
           ELSE {Run(Raise("Prometheus MCP server not accessible"), g.sent, g.cache)}
           : g \in get_prometheus_mcp_client(cache)}

(***************************************************************************)
(* route_infra_command, grafana branch                                     *)
(***************************************************************************)
Range(s) == {s[i] : i \in 1..Len(s)}

\* the isinstance / key tests that lead to result["result"]["content"][0]["text"]
HasFirstText(result) ==
    /\ HasKey(result, "result")
    /\ HasKey(result.v["result"], "content")
    /\ result.v["result"].v["content"].t = "list"
    /\ Len(result.v["result"].v["content"].v) > 0
    /\ HasKey(result.v["result"].v["content"].v[1], "text")

FirstText(result) == result.v["result"].v["content"].v[1].v["text"]

\* Python: json.loads(x)
json_loads(x) ==
    CASE x.t = "json" -> [raised |-> "", value |-> x.v]
      [] x.t \in {"str", "name"} -> [raised |-> "JSONDecodeError", value |-> None]
      [] OTHER -> [raised |-> "TypeError", value |-> None]

\* dashboard.get("title", "")
Title(dashboard) == Get(dashboard.v, "title", Str(<<>>))

\* answers to list_dashboards
Envelope(text) == Dict("result" :> Dict("content" :> List(<<Dict("text" :> text)>>)))

\* the name-based search after list_dashboards has answered list_result
SearchByName(list_result, name, sent, cache) ==
    \* the items the for loop visits; a dict yields its keys and a str its
    \* characters, none of which is a dict
    LET Items(data) == IF data.t = "list" THEN data.v ELSE <<>>
        Iterable(data) == data.t \in {"list", "dict", "str", "name"}
        \* positions at which the loop stops: a dict whose title has no lower(), or
        \* a dict whose lowered title contains the lowered name
        Stops(items, wanted) ==
            {i \in 1..Len(items) :
                /\ items[i].t = "dict"
                /\ \/ Title(items[i]).t # "str"
                   \/ StrIn(Lower(wanted), Lower(Title(items[i]).v))}
    IN
    IF is_server_error(list_result)
    THEN {Run(Text(MSG.GRAFANA_NOT_ACCESSIBLE, NoDetail), sent, cache)}
    ELSE IF ~HasFirstText(list_result)
    THEN {Run(Text(MSG.COULD_NOT_RETRIEVE, NoDetail), sent, cache)}
    ELSE LET loaded == json_loads(FirstText(list_result))
             items == Items(loaded.value)
             stops == Stops(items, name)
         IN  IF loaded.raised = "JSONDecodeError"
             THEN {Run(Text(MSG.FAILED_TO_SEARCH, [exc |-> loaded.raised]), sent, cache)}
             ELSE IF loaded.raised = "TypeError" \/ ~Iterable(loaded.value)
             THEN {Run(Raise("TypeError"), sent, cache)}
             ELSE IF stops = {}
             THEN {Run(Text(MSG.NO_DASHBOARD_FOUND, [name |-> name]), sent, cache)}
             ELSE LET matching_dashboard == items[Min(stops)]
                  IN  IF Title(matching_dashboard).t # "str"
                      THEN {Run(Raise("AttributeError"), sent, cache)}
                      ELSE IF ~Truthy(matching_dashboard)
                      THEN {Run(Text(MSG.NO_DASHBOARD_FOUND, [name |-> name]), sent, cache)}
                      ELSE {Run(json_dumps(c.result), sent \o c.sent, cache)
                               : c \in Grafana_execute_tool("get_dashboard",
                                     Dict("uid" :> Get(matching_dashboard.v, "uid", None)),
                                     CallExchanges)}

\* list dashboards / datasources: the parsed first text, else the raw result
ListGrafana(result, sent, cache) ==
    IF HasFirstText(result)
    THEN LET loaded == json_loads(FirstText(result))
         IN  CASE loaded.raised = "" -> {Run(json_dumps(loaded.value), sent, cache)}
               [] loaded.raised = "JSONDecodeError" ->
                      {Run(json_dumps(result), sent, cache)}
               [] OTHER -> {Run(Raise("TypeError"), sent, cache)}
    ELSE {Run(json_dumps(result), sent, cache)}

\* the data of a list_dashboards answer: lists of entries drawn from two
\* dashboards, an entry without a usable title, and an entry that is no object
DashboardLists ==
    LET Dashboard(title, uid) == Dict(("title" :> title) @@ ("uid" :> uid))
        DashboardPool ==
            {Dashboard(Str(ELit.s_Node_Exporter_Full), Str(ELit.s_abc123)),
             Dashboard(Str(ELit.s_K8s_Node_Exporter), Str(ELit.s_k8s1)),
             Dashboard(None, Str(ELit.s_x9)), Str(ELit.s_oops)}
    IN  {List(ds) : ds \in SeqsUpTo(DashboardPool, MaxDashboards)}

\* what list_dashboards / list_datasources can come to
ListExchanges ==
    LET ListBodies ==
            {Envelope(JsonText(data)) : data \in DashboardLists}
                \cup {Envelope(Str(ELit.s_oops)), Envelope(None),
                      Envelope(JsonText(Num(3))),
                      Envelope(JsonText(Dict("message" :> Str(ELit.s_oops)))),
                      Body.PlainAnswer, Body.RpcError, List(<<>>)}
    IN  FailedExchanges \cup {Response(200, <<>>, body) : body \in ListBodies}

GrafanaActions(cmd, sent, cache) ==
    \* Python: re.match(r'^[a-zA-Z0-9]+$', s); "$" also matches just before a
    \* newline that ends the string
    LET LooksLikeUid(s) ==
            LET alnum(n) == n >= 1 /\ \A i \in 1..n :
                                s[i] \in Range(ELit.UPPER) \cup Range(ELit.LOWER) \cup Range(ELit.DIGITS)
            IN  \/ alnum(Len(s))
                \/ Len(s) >= 2 /\ s[Len(s)] = "\n" /\ alnum(Len(s) - 1)
    IN
    LET action == Get(cmd, "action", None)
        resource == Get(cmd, "resource", None)
        name == Get(cmd, "name", None)
    IN  CASE action = Name("list") /\ resource \in {Name("dashboards"), Name("dashboard")} ->
                 UNION {IF is_server_error(c.result)
                        THEN {Run(Text(MSG.GRAFANA_NOT_ACCESSIBLE, NoDetail),
                                  sent \o c.sent, cache)}
                        ELSE ListGrafana(c.result, sent \o c.sent, cache)
                        : c \in Grafana_execute_tool("list_dashboards",
                                    Dict(EmptyDict), ListExchanges)}
          [] action = Name("list")
                 /\ resource \in {Name("datasources"), Name("datasource")} ->
                 UNION {ListGrafana(c.result, sent \o c.sent, cache)
                        : c \in Grafana_execute_tool("list_datasources",
                                    Dict(EmptyDict), ListExchanges)}
          [] action = Name("get") /\ resource \in {Name("dashboards"), Name("dashboard")} ->
                 IF name.t # "str"
                 THEN {Run(Raise("TypeError"), sent, cache)}
                 ELSE IF LooksLikeUid(name.v)
                 THEN {Run(IF is_server_error(c.result)
                           THEN Text(MSG.GRAFANA_NOT_ACCESSIBLE, NoDetail)
                           ELSE json_dumps(c.result),
                           sent \o c.sent, cache)
                          : c \in Grafana_execute_tool("get_dashboard",
                                      Dict("uid" :> name), CallExchanges)}
                 ELSE UNION {SearchByName(c.result, name.v, sent \o c.sent, cache)
                             : c \in Grafana_execute_tool("list_dashboards",
                                         Dict(EmptyDict), ListExchanges)}
          [] OTHER -> NotSupported(cmd, sent, cache)

GrafanaBranch(cmd, cache) ==
    UNION {IF g.client
           THEN GrafanaActions(cmd, g.sent, g.cache)
           ELSE {Run(Raise("Grafana MCP server not accessible"), g.sent, g.cache)}
           : g \in get_grafana_mcp_client(cache)}

(***************************************************************************)
(* route_infra_command, vmware and network branches                        *)
(***************************************************************************)
\* one call_method call whose result is returned as JSON text
ForwardESXi(method_name, params, sent, cache) ==
    {Run(json_dumps(c.result), sent \o c.sent, cache)
        : c \in ESXi_call_method(method_name, Dict(params))}

VmwareActions(cmd, sent, cache) ==
    \* params[key] = value, when value is not None
    LET WithGiven(params, key, value) ==
            IF value # None THEN DictSet(params, key, value) ELSE params
        VM_RESOURCES == {Name("vms"), Name("vm")}
    IN
    LET action == Get(cmd, "action", None)
        resource == Get(cmd, "resource", None)
        name == Get(cmd, "name", None)
    IN  CASE action = Name("list") /\ resource \in VM_RESOURCES ->
                 {Run(IF is_server_error(c.result)
                      THEN Text(MSG.VMWARE_NOT_ACCESSIBLE, NoDetail)
                      ELSE json_dumps(c.result),
                      sent \o c.sent, cache)
                     : c \in ESXi_call_method("listVMs", Dict(EmptyDict))}
          [] action \in {Name("get"), Name("status"), Name("info")}
                 /\ resource \in VM_RESOURCES ->
                 {Run(Text(MSG.VM_INFO_UNSUPPORTED, NoDetail), sent, cache)}
          [] action = Name("create") ->
                 ForwardESXi("createVM",
                     WithGiven(WithGiven(("name" :> name)
                                   @@ ("cpu" :> Get(cmd, "cpu", Num(2)))
                                   @@ ("memory" :> Get(cmd, "memory", Num(4096))),
                               "datastore", Get(cmd, "datastore", None)),
                               "network", Get(cmd, "network", None)),
                     sent, cache)
          [] action = Name("clone") ->
                 ForwardESXi("cloneVM",
                     ("template_name" :> Get(cmd, "template_name", name))
                         @@ ("new_name" :> Get(cmd, "new_name",
                                                Get(cmd, "target_name", None))),
                     sent, cache)
          [] action = Name("power_on") ->
                 ForwardESXi("powerOn", "name" :> name, sent, cache)
          [] action = Name("power_off") ->
                 ForwardESXi("powerOff", "name" :> name, sent, cache)
          [] action = Name("delete") ->
                 ForwardESXi("deleteVM", "name" :> name, sent, cache)
          [] action = Name("get_stats") ->
                 {Run(json_dumps(Dict(("vm_name" :> name)
                                        @@ ("cpu_usage_mhz" :> Num(2048))
                                        @@ ("memory_usage_mb" :> Num(2048))
                                        @@ ("storage_usage_gb" :> Num(25))
                                        @@ ("network_rx_mbps" :> Num(150))
                                        @@ ("network_tx_mbps" :> Num(85)))),
                      sent, cache)}
          [] action = Name("snapshots") /\ resource \in VM_RESOURCES ->
                 ForwardESXi("get_vm_snapshots", "vm_name" :> name, sent, cache)
          [] action = Name("create_snapshot") ->
                 ForwardESXi("create_snapshot",
                     WithOptional(("vm_name" :> name)
                                      @@ ("snapshot_name" :> Get(cmd, "snapshot_name", None)),
                                  cmd, "description"),
                     sent, cache)
          [] OTHER -> NotSupported(cmd, sent, cache)

\* the client is fetched before the action is looked at
VmwareBranch(cmd, cache) ==
    UNION {IF g.client
           THEN VmwareActions(cmd, g.sent, g.cache)
           ELSE {Run(Raise("ESXi MCP server not accessible"), g.sent, g.cache)}
           : g \in get_esxi_mcp_client(cache)}

\* network_discovery is a tool object, not a coroutine function: calling it
\* with subnet=... raises TypeError
NetworkBranch(cmd, cache) ==
    IF Get(cmd, "action", None) = Name("scan")
    THEN {Run(Raise("TypeError"), <<>>, cache)}
    ELSE NotSupported(cmd, <<>>, cache)

(***************************************************************************)
(* route_infra_command                                                     *)
(***************************************************************************)
\* the try block
TryBlock(cmd, cache) ==
    LET domain == Get(cmd, "domain", None)
    IN  CASE domain = Name("kubernetes") -> KubernetesBranch(cmd, cache)
          [] domain = Name("prometheus") -> PrometheusBranch(cmd, cache)
          [] domain = Name("grafana") -> GrafanaBranch(cmd, cache)
          [] domain = Name("vmware") -> VmwareBranch(cmd, cache)
          [] domain = Name("network") -> NetworkBranch(cmd, cache)
          [] OTHER -> NotSupported(cmd, <<>>, cache)

\* route_infra_command without its except clause
route_infra_command_NoExcept(cmd, cache) == TryBlock(cmd, cache)

\* the runs of one call: every exception of the try block becomes a str
route_infra_command(cmd, cache) ==
    {IF r.ret.t = "raise"
     THEN Run(Text(MSG.ERROR_EXECUTING, [exc |-> r.ret.exc]), r.sent, r.cache)
     ELSE r : r \in TryBlock(cmd, cache)}

(***************************************************************************)
(* Commands handed to the router and the router as a state machine         *)
(***************************************************************************)
\* the dict infra_command builds: all six keys, None for what was left out
infra_command(domain, action, resource, name, namespace, query) ==
    ("domain" :> domain) @@ ("action" :> action) @@ ("resource" :> resource)
        @@ ("name" :> name) @@ ("namespace" :> namespace) @@ ("query" :> query)

\* a dict with only the keys a direct caller gives
Partial(domain, action) == ("domain" :> domain) @@ ("action" :> action)

\* the commands handed to the router, domain by domain
Commands ==
    LET KubernetesCommands ==
            {infra_command(Name("kubernetes"), Name(a), r, Str(Lit.s_web_1), ns, None) :
                a \in {"list", "get", "describe", "ping", "watch"},
                r \in {Name("pods"), Name("pod"), None},
                ns \in {None, Name("default"), Name("prod")}}
            \cup {DictSet(Partial(Name("kubernetes"), Name("scale")), "replicas", n) :
                    n \in {Num(3), Str(ELit.s_3), Str(ELit.s_up), None}}
            \cup {Partial(Name("kubernetes"), Name(a)) : a \in {"list", "scale", "logs"}}

        PrometheusCommands ==
            {infra_command(Name("prometheus"), a, None, None, None, q) :
                a \in {Name("query"), Name("health"), Name("list_metrics"),
                       Name("get_targets"), Name("drop"), None},
                q \in {None, Str(<<>>), Str(ELit.s_up)}}
            \cup {Partial(Name("prometheus"), Name("query"))}

        DashboardNames ==
            {None, Str(ELit.s_abc123), Str(ELit.s_node_exporter), Str(ELit.s_Node_EXPORTER),
             Str(ELit.s_disk_usage),
             Str(ELit.s_abc123 \o <<"\n">>)}

        GrafanaCommands ==
            {infra_command(Name("grafana"), Name(a), r, n, None, None) :
                a \in {"list", "get", "delete"},
                r \in {Name("dashboards"), Name("dashboard"), Name("datasources"), None},
                n \in DashboardNames}
            \cup {Partial(Name("grafana"), Name("get"))}

        VmwareCommands ==
            {infra_command(Name("vmware"), Name(a), r, n, None, None) :
                a \in {"list", "get", "status", "info", "create", "clone", "power_on",
                       "power_off", "delete", "get_stats", "snapshots", "create_snapshot",
                       "reboot"},
                r \in {Name("vm"), Name("vms"), Name("host"), None},
                n \in {None, Str(Lit.s_db1)}}
            \cup {Partial(Name("vmware"), Name("get"))}

        OtherCommands ==
            {Partial(Name("network"), Name("scan")), Partial(Name("network"), Name("trace")),
             Partial(Name("storage"), Name("list")), Partial(None, None), EmptyDict}
    IN  KubernetesCommands \cup PrometheusCommands \cup GrafanaCommands
            \cup VmwareCommands \cup OtherCommands

\* one call of route_infra_command, with whatever the backends answer
Route(cmd) ==
    /\ route.pc = "idle"
    /\ \E r \in route_infra_command(cmd, clientCache) :
        /\ route' = [pc |-> "returned", cmd |-> cmd, cached |-> clientCache,
                     result |-> r.ret, sent |-> r.sent]
        /\ clientCache' = r.cache
    /\ UNCHANGED <<policies, evalVars, interpVars, pipeVars, classify, verify, turn, cachedBy, getterVars, matching>>

\* infra_command hands the result on
RouteReturn ==
    /\ route.pc = "returned"
    /\ route' = Idle
    /\ UNCHANGED <<policies, evalVars, interpVars, pipeVars, classify, clientCache,
                   verify, turn, cachedBy, getterVars, matching>>

NextRouter ==
    \/ \E cmd \in Commands : Route(cmd)
    \/ RouteReturn

SpecRouter == InitEval /\ [][NextRouter]_vars

(***************************************************************************)
(* C6: route_infra_command never raises to its caller; whatever the        *)
(* command and whatever the backends do, it returns a string.              *)
(***************************************************************************)
C6_AlwaysReturnsString == route.pc = "returned" => route.result.t = "str"

\* a call in which the try block raised (no client could be obtained) has
\* returned a string
C6_Witness ==
    /\ route.pc = "returned"
    /\ route.result.t = "str"
    /\ route.result.text = MSG.ERROR_EXECUTING
    /\ route.sent # <<>>

(***************************************************************************)
(* C3: the command {domain: vmware, action: get, resource: vm} always      *)
(* returns the unsupported-operation message and sends no request of any   *)
(* kind to the VMware backend, whatever the client cache holds and whether *)
(* or not the backend is reachable.                                        *)
(***************************************************************************)
IsVmGet(cmd) ==
    /\ Get(cmd, "domain", None) = Name("vmware")
    /\ Get(cmd, "action", None) = Name("get")
    /\ Get(cmd, "resource", None) = Name("vm")

C3_UnsupportedWithoutRequest ==
    (route.pc = "returned" /\ IsVmGet(route.cmd)) =>
        /\ route.result.t = "str"
        /\ route.result.text = MSG.VM_INFO_UNSUPPORTED
        /\ route.sent = <<>>

(***************************************************************************)
(* C7: for a grafana get-dashboard command whose name is not purely        *)
(* alphanumeric the router lists all dashboards, selects the first         *)
(* dashboard in list order whose title contains the name as a              *)
(* case-insensitive substring and fetches that dashboard's uid; when no    *)
(* title matches it returns the not-found message; it never raises.        *)
(***************************************************************************)
PurelyAlphanumeric(s) ==
    /\ s # <<>>
    /\ \A i \in 1..Len(s) : s[i] \in Range(ELit.UPPER) \cup Range(ELit.LOWER) \cup Range(ELit.DIGITS)

IsGetDashboardByName(cmd) ==
    /\ Get(cmd, "domain", None) = Name("grafana")
    /\ Get(cmd, "action", None) = Name("get")
    /\ Get(cmd, "resource", None) \in {Name("dashboards"), Name("dashboard")}
    /\ Get(cmd, "name", None).t = "str"
    /\ ~PurelyAlphanumeric(cmd["name"].v)

\* the tools/call requests of the call, in the order sent
ToolCalls == SelectSeq(route.sent, LAMBDA q : q.kind = "tools/call")

\* list_dashboards was answered with a list of dashboards that all have a title
WellFormedList(x) ==
    /\ x.kind = "response"
    /\ x.status_code = 200
    /\ \E data \in DashboardLists :
          /\ x.body = Envelope(JsonText(data))
          /\ \A i \in 1..Len(data.v) : HasKey(data.v[i], "title")
                                           /\ data.v[i].v["title"].t = "str"

Listed(x) == x.body.v["result"].v["content"].v[1].v["text"].v.v

TitleMatches(dashboards, name) ==
    {i \in 1..Len(dashboards) :
        ContainsIgnoringCase(dashboards[i].v["title"].v, name)}

ResolvedByName(name) ==
    /\ ToolCalls # <<>>
    /\ ToolCalls[1].tool = "list_dashboards"
    /\ ToolCalls[1].arguments = Dict(EmptyDict)
    /\ WellFormedList(ToolCalls[1].answer) =>
          LET dashboards == Listed(ToolCalls[1].answer)
              hits == TitleMatches(dashboards, name)
          IN  IF hits = {}
              THEN /\ Len(ToolCalls) = 1
                   /\ route.result.text = MSG.NO_DASHBOARD_FOUND
              ELSE /\ Len(ToolCalls) = 2
                   /\ ToolCalls[2].tool = "get_dashboard"
                   /\ ToolCalls[2].arguments =
                          Dict("uid" :> dashboards[Min(hits)].v["uid"])

C7_ResolvesNameToFirstMatch ==
    (route.pc = "returned" /\ IsGetDashboardByName(route.cmd)) =>
        /\ route.result.t = "str"
        /\ clientCache["grafana"] => ResolvedByName(route.cmd["name"].v)

(***************************************************************************)
(* engine.verification_node.  The content of a message is a sequence of    *)
(* lexical tokens: the code fence, white space, JSON punctuation, quoted   *)
(* JSON strings, bare words.  The literals of the seven patterns and the   *)
(* grammar of json.loads fall on these boundaries.                         *)
(***************************************************************************)
Tok(k, s) == [k |-> k, s |-> s]

\* the code fence (three backticks), white space, null, punctuation
FENCE == Tok("fence", "fence")
WS == Tok("ws", " ")
NULL == Tok("word", "null")
Punct(s) == Tok("punct", s)

\* a JSON string literal, quotes included
Quoted(s) == Tok("string", s)

Word(s) == Tok("word", s)

At(c, i, tok) == i >= 1 /\ i <= Len(c) /\ c[i] = tok

\* regex \s* from position i on: the position of the first token that is no
\* white space, Len(c) + 1 when there is none
SkipWs(c, i) == Min({j \in i..(Len(c) + 1) : j = Len(c) + 1 \/ c[j].k # "ws"})

NoMatch == [from |-> 0, to |-> 0]

\* ```\s*json\s*(\{[\s\S]*?\})\s*```  (tagged) and  ```\s*(\{[\s\S]*?\})\s*```
\* tried at position i: the span of group 1
FencedGroup(c, i, tagged) ==
    IF ~At(c, i, FENCE) THEN NoMatch
    ELSE LET afterFence == SkipWs(c, i + 1)
             open == IF ~tagged THEN afterFence
                     ELSE IF At(c, afterFence, Word("json"))
                          THEN SkipWs(c, afterFence + 1)
                          ELSE 0
             closes == {b \in (open + 1)..Len(c) :
                           c[b] = Punct("}") /\ At(c, SkipWs(c, b + 1), FENCE)}
         IN  IF ~At(c, open, Punct("{")) \/ closes = {} THEN NoMatch
             ELSE [from |-> open, to |-> Min(closes)]

\* position of the token after  key \s* : \s*  when that starts at j, else 0
AfterKey(c, j, key) ==
    IF At(c, j, Quoted(key)) /\ At(c, SkipWs(c, j + 1), Punct(":"))
    THEN SkipWs(c, SkipWs(c, j + 1) + 1)
    ELSE 0

\* (\{[\s\S]*?"tool_calls"\s*:\s*\[[\s\S]*?\])  tried at position i
ToolCallsGroup(c, i) ==
    IF ~At(c, i, Punct("{")) THEN NoMatch
    ELSE LET keys == {j \in (i + 1)..Len(c) :
                         /\ At(c, AfterKey(c, j, "tool_calls"), Punct("["))
                         /\ \E d \in (AfterKey(c, j, "tool_calls") + 1)..Len(c) :
                               c[d] = Punct("]")}
         IN  IF keys = {} THEN NoMatch
             ELSE LET open == AfterKey(c, Min(keys), "tool_calls")
                  IN  [from |-> i,
                       to |-> Min({d \in (open + 1)..Len(c) : c[d] = Punct("]")})]

\* (\{[\s\S]*?"domain"\s*:\s*"<domain>"[\s\S]*?\})  tried at position i
DomainGroup(c, i, domain) ==
    IF ~At(c, i, Punct("{")) THEN NoMatch
    ELSE LET keys == {j \in (i + 1)..Len(c) :
                         /\ At(c, AfterKey(c, j, "domain"), Quoted(domain))
                         /\ \E e \in (AfterKey(c, j, "domain") + 1)..Len(c) :
                               c[e] = Punct("}")}
         IN  IF keys = {} THEN NoMatch
             ELSE LET literal == AfterKey(c, Min(keys), "domain")
                  IN  [from |-> i,
                       to |-> Min({e \in (literal + 1)..Len(c) : c[e] = Punct("}")})]

\* the seven patterns, in the order of the list
Pattern(n, c, i) ==
    CASE n = 1 -> FencedGroup(c, i, TRUE)
      [] n = 2 -> FencedGroup(c, i, FALSE)
      [] n = 3 -> ToolCallsGroup(c, i)
      [] n = 4 -> DomainGroup(c, i, "kubernetes")
      [] n = 5 -> DomainGroup(c, i, "prometheus")
      [] n = 6 -> DomainGroup(c, i, "grafana")
      [] n = 7 -> DomainGroup(c, i, "vmware")

\* re.search: the match at the leftmost position where the pattern matches
SearchPattern(n, c) ==
    LET starts == {i \in 1..Len(c) : Pattern(n, c, i) # NoMatch}
    IN  IF starts = {} THEN NoMatch ELSE Pattern(n, c, Min(starts))

\* the loop over patterns: group 1 of the first pattern that matches
code_match(c) ==
    LET hits == {n \in 1..7 : SearchPattern(n, c) # NoMatch}
    IN  IF hits = {} THEN NoMatch ELSE SearchPattern(Min(hits), c)

(***************************************************************************)
(* json.loads over tokens                                                  *)
(***************************************************************************)
ParseFail == [ok |-> FALSE, value |-> None, next |-> 0]

Parsed(value, next) == [ok |-> TRUE, value |-> value, next |-> next]

RECURSIVE ParseValue(_, _)
RECURSIVE ParseMembers(_, _, _)
RECURSIVE ParseElements(_, _, _)

\* "key": value, ... }   from position i0 on, d the members read so far
ParseMembers(c, i0, d) ==
    LET i == SkipWs(c, i0)
        colon == SkipWs(c, i + 1)
        r == ParseValue(c, colon + 1)
        n == SkipWs(c, r.next)
        members == DictSet(d, c[i].s, r.value)
    IN  IF ~(i <= Len(c) /\ c[i].k = "string") \/ ~At(c, colon, Punct(":")) THEN ParseFail
        ELSE IF ~r.ok THEN ParseFail
        ELSE IF At(c, n, Punct(",")) THEN ParseMembers(c, n + 1, members)
        ELSE IF At(c, n, Punct("}")) THEN Parsed(Dict(members), n + 1)
        ELSE ParseFail

\* value, ... ]   from position i0 on, items the elements read so far
ParseElements(c, i0, items) ==
    LET r == ParseValue(c, i0)
        n == SkipWs(c, r.next)
    IN  IF ~r.ok THEN ParseFail
        ELSE IF At(c, n, Punct(",")) THEN ParseElements(c, n + 1, Append(items, r.value))
        ELSE IF At(c, n, Punct("]")) THEN Parsed(List(Append(items, r.value)), n + 1)
        ELSE ParseFail

ParseValue(c, i0) ==
    LET i == SkipWs(c, i0)
    IN  IF i > Len(c) THEN ParseFail
        ELSE CASE c[i].k = "string" -> Parsed(Name(c[i].s), i + 1)
               [] c[i] = NULL -> Parsed(None, i + 1)
               [] c[i] = Punct("{") ->
                      IF At(c, SkipWs(c, i + 1), Punct("}"))
                      THEN Parsed(Dict(EmptyDict), SkipWs(c, i + 1) + 1)
                      ELSE ParseMembers(c, i + 1, EmptyDict)
               [] c[i] = Punct("[") ->
                      IF At(c, SkipWs(c, i + 1), Punct("]"))
                      THEN Parsed(List(<<>>), SkipWs(c, i + 1) + 1)
                      ELSE ParseElements(c, i + 1, <<>>)
               [] OTHER -> ParseFail

\* Python: json.loads(text)
loads(c) ==
    LET r == ParseValue(c, 1)
    IN  IF r.ok /\ SkipWs(c, r.next) > Len(c)
        THEN [raised |-> "", value |-> r.value]
        ELSE [raised |-> "JSONDecodeError", value |-> None]

(***************************************************************************)
(* Messages, and what verification_node returns                            *)
(***************************************************************************)
AIMessage(content, additional_kwargs) ==
    [type |-> "ai", content |-> content, additional_kwargs |-> additional_kwargs]

HumanMessage(content) ==
    [type |-> "human", content |-> content, additional_kwargs |-> EmptyDict]

ToolMessage(content) ==
    [type |-> "tool", content |-> content, additional_kwargs |-> EmptyDict]

AgentState(messages, current_task) ==
    [messages |-> messages, session_id |-> "s1", current_task |-> current_task]

\* one entry of the synthesized call list; arguments is what json.dumps is given
ToolCall(i, name, arguments) ==
    [id |-> ELit.s_call_ \o StrOfNat(i),
     function |-> [name |-> name, arguments |-> JsonText(arguments)],
     type |-> "function"]

\* {**state, "messages": [AIMessage(content="", additional_kwargs={"tool_calls": ...})]}
Forwarded(state, tool_calls) ==
    [state EXCEPT !.messages = <<AIMessage(<<>>, "tool_calls" :> tool_calls)>>]

\* the standard tool_calls format; tool_call["name"] raises on an entry that
\* is no dict or has no name, and the except clauses hand the state back
StandardFormat(state, data) ==
    LET calls == data.v["tool_calls"].v
    IN  IF \E i \in 1..Len(calls) : ~HasKey(calls[i], "name") THEN state
        ELSE Forwarded(state,
                 [i \in 1..Len(calls) |->
                     ToolCall(i, calls[i].v["name"],
                              Get(calls[i].v, "arguments", Dict(EmptyDict)))])

\* the uid or title of a grafana get, from the object or from its params
ExtractDashboard(arguments, d) ==
    LET params == Get(d, "params", None)
    IN  IF ~(d["domain"] = Name("grafana") /\ d["action"] = Name("get"))
        THEN arguments
        ELSE IF "uid" \in DOMAIN d THEN DictSet(arguments, "name", d["uid"])
        ELSE IF "title" \in DOMAIN d THEN DictSet(arguments, "name", d["title"])
        ELSE IF ~(Truthy(params) /\ params.t = "dict") THEN arguments
        ELSE IF "uid" \in DOMAIN params.v
             THEN DictSet(arguments, "name", params.v["uid"])
        ELSE IF "title" \in DOMAIN params.v
             THEN DictSet(arguments, "name", params.v["title"])
        ELSE arguments

\* a standard field is taken when it is not None and not yet set
WithStandard(arguments, d, key) ==
    IF key \notin DOMAIN arguments /\ Get(d, key, None) # None
    THEN DictSet(arguments, key, d[key])
    ELSE arguments

STANDARD_FIELDS == {"domain", "action", "resource", "name", "namespace", "query"}

\* the direct infra_command format
DirectFormat(state, data) ==
    LET d == data.v
        base == ("domain" :> d["domain"]) @@ ("action" :> d["action"])
                    @@ ("resource" :> Get(d, "resource", None))
        standard == WithStandard(WithStandard(WithStandard(
                        ExtractDashboard(base, d), d, "name"), d, "namespace"),
                        d, "query")
        extra == {k \in DOMAIN d \ STANDARD_FIELDS : d[k] # None}
        arguments == [k \in DOMAIN standard \cup extra |->
                         IF k \in extra THEN d[k] ELSE standard[k]]
    IN  Forwarded(state, <<ToolCall(1, Name("infra_command"), Dict(arguments))>>)

\* verification_node that answers a capture it cannot parse with an empty message
verification_node_EmptyOnParseFailure(state) ==
    LET messages == state.messages
        last_message == messages[Len(messages)]
        content == last_message.content
        match == code_match(content)
        parsed == loads(SubSeq(content, match.from, match.to))
        tool_call_data == parsed.value
    IN  IF messages = <<>> THEN state
        ELSE IF last_message.type # "ai" THEN state
        ELSE IF match = NoMatch THEN state
        ELSE IF parsed.raised # "" THEN Forwarded(state, <<>>)
        ELSE IF HasKey(tool_call_data, "tool_calls")
                  /\ tool_call_data.v["tool_calls"].t = "list"
             THEN StandardFormat(state, tool_call_data)
        ELSE IF HasKey(tool_call_data, "domain") /\ HasKey(tool_call_data, "action")
             THEN DirectFormat(state, tool_call_data)
        ELSE state

\* verification_node: the update it returns for a state
verification_node(state) ==
    LET messages == state.messages
        last_message == messages[Len(messages)]
        content == last_message.content
        match == code_match(content)
        parsed == loads(SubSeq(content, match.from, match.to))
        tool_call_data == parsed.value
    IN  IF messages = <<>> THEN state
        ELSE IF last_message.type # "ai" THEN state
        ELSE IF match = NoMatch \/ parsed.raised # "" THEN state
        ELSE IF HasKey(tool_call_data, "tool_calls")
                  /\ tool_call_data.v["tool_calls"].t = "list"
             THEN StandardFormat(state, tool_call_data)
        ELSE IF HasKey(tool_call_data, "domain") /\ HasKey(tool_call_data, "action")
             THEN DirectFormat(state, tool_call_data)
        ELSE state

(***************************************************************************)
(* Generated responses: JSON as the text-completion service writes it      *)
(***************************************************************************)
KEY_ORDER == <<"tool_calls", "name", "arguments", "domain", "action", "resource",
              "namespace", "query", "uid", "title", "params">>

RECURSIVE Encode(_)
RECURSIVE EncodeMembers(_, _)
RECURSIVE EncodeElements(_)

EncodeMembers(d, keys) ==
    IF keys = <<>> THEN <<>>
    ELSE <<Quoted(keys[1]), Punct(":"), WS>> \o Encode(d[keys[1]])
             \o (IF Len(keys) > 1 THEN <<Punct(","), WS>> ELSE <<>>)
             \o EncodeMembers(d, Tail(keys))

EncodeElements(items) ==
    IF items = <<>> THEN <<>>
    ELSE Encode(items[1]) \o (IF Len(items) > 1 THEN <<Punct(","), WS>> ELSE <<>>)
             \o EncodeElements(Tail(items))

\* the JSON text of a value
Encode(value) ==
    CASE value.t = "name" -> <<Quoted(value.v)>>
      [] value.t = "none" -> <<NULL>>
      [] value.t = "dict" ->
             <<Punct("{")>>
             \o EncodeMembers(value.v, SelectSeq(KEY_ORDER, LAMBDA k : k \in DOMAIN value.v))
             \o <<Punct("}")>>
      [] value.t = "list" -> <<Punct("[")>> \o EncodeElements(value.v) \o <<Punct("]")>>

\* {"tool_calls": [{"name": "infra_command", "arguments": {...}}, ...]}
ToolCallsBlock(descriptors) ==
    Dict("tool_calls" :>
         List([i \in 1..Len(descriptors) |->
                  Dict(("name" :> Name("infra_command"))
                           @@ ("arguments" :> Dict(descriptors[i])))]))

Styles == {"json", "fenced", "bare"}

PROSE == <<Word("Here"), WS, Word("you"), WS, Word("go"), WS>>

\* the JSON in a fence tagged json, in a plain fence, or bare; with or
\* without prose around it
Rendered(style, prose, json) ==
    LET block == CASE style = "json" -> <<FENCE, Word("json"), WS>> \o json \o <<WS, FENCE>>
                   [] style = "fenced" -> <<FENCE, WS>> \o json \o <<WS, FENCE>>
                   [] style = "bare" -> json
    IN  IF prose THEN PROSE \o block \o <<WS, Word("Done")>> ELSE block

(***************************************************************************)
(* Calls of verification_node                                              *)
(***************************************************************************)
\* a Command Descriptor; "" for a field that is left out
Descriptor(domain, action, resource, name) ==
    LET required == Partial(Name(domain), Name(action))
        withResource == IF resource = "" THEN required
                        ELSE DictSet(required, "resource", Name(resource))
    IN  IF name = "" THEN withResource ELSE DictSet(withResource, "name", Name(name))

Descriptors ==
    {Descriptor(domain, action, resource, name) :
        domain \in {"kubernetes", "prometheus", "grafana", "vmware", "network"},
        action \in {"list", "get"},
        resource \in {"", "pods", "dashboards"},
        name \in {"", "web-1", "node exporter"}}

\* contents of generated responses: tool_calls blocks of one and of two
\* descriptors; objects in the direct format, some with a dashboard
\* identifier, a params object or a null field; blocks that are no call list
\* the code can forward; text without a complete object
Contents ==
    LET PodList == Descriptor("kubernetes", "list", "pods", "")
        DashboardGet == Descriptor("grafana", "get", "dashboards", "node exporter")
        DirectObjects ==
            Descriptors
            \cup {DictSet(d, "uid", Name("abc123")) : d \in Descriptors}
            \cup {DictSet(d, "title", Name("Node Exporter Full")) : d \in Descriptors}
            \cup {DictSet(d, "params", Dict("uid" :> Name("abc123"))) : d \in Descriptors}
            \cup {DictSet(d, "params", Dict("title" :> Name("Node Exporter Full"))) :
                     d \in Descriptors}
            \cup {DictSet(d, "namespace", None) : d \in Descriptors}
            \cup {DictSet(d, "query", Name("up")) : d \in Descriptors}
        Malformed ==
            {Dict("tool_calls" :> None),
             Dict("tool_calls" :> List(<<>>)),
             Dict("tool_calls" :> List(<<Dict("arguments" :> Dict(PodList))>>)),
             Dict("tool_calls" :> List(<<Dict("name" :> Name("infra_command"))>>)),
             Dict("tool_calls" :> List(<<Name("infra_command")>>)),
             Dict("domain" :> Name("kubernetes")),
             Dict("action" :> Name("list")),
             Dict(EmptyDict)}
    IN  {Rendered(style, prose, Encode(ToolCallsBlock(<<d>>))) :
            d \in Descriptors, style \in Styles, prose \in BOOLEAN}
        \cup {Rendered(style, FALSE, Encode(ToolCallsBlock(<<d1, d2>>))) :
                 d1 \in {PodList, DashboardGet}, d2 \in {PodList, DashboardGet},
                 style \in Styles}
        \cup {Rendered(style, prose, Encode(Dict(d))) :
                 d \in DirectObjects, style \in Styles, prose \in BOOLEAN}
        \cup {Rendered(style, FALSE, Encode(block)) : block \in Malformed, style \in Styles}
        \cup {<<>>, PROSE, <<FENCE, Word("json"), WS, Punct("{"), Quoted("domain")>>,
              <<Punct("{"), Quoted("domain"), Punct(":"), Quoted("vmware")>>}

\* the states the node is run on: no message, a user message last, a tool
\* message last, a generated response last
AgentStates ==
    LET QUESTION == <<Word("show"), WS, Word("pods")>>
    IN  {AgentState(messages, task) :
            messages \in {<<>>, <<HumanMessage(QUESTION)>>,
                          <<HumanMessage(QUESTION), AIMessage(<<>>, EmptyDict),
                            ToolMessage(PROSE)>>}
                         \cup {<<HumanMessage(QUESTION), AIMessage(content, EmptyDict)>> :
                                  content \in Contents},
            task \in {"chat", "chat-with-infra"}}

\* the graph runs the verify node on a state
Verify(state) ==
    /\ verify.pc = "idle"
    /\ verify' = [pc |-> "returned", state |-> state, out |-> verification_node(state)]
    /\ UNCHANGED <<policies, evalVars, interpVars, pipeVars, classify, route,
                   clientCache, turn, cachedBy, getterVars, matching>>

\* the graph takes what the node returned
VerifyReturn ==
    /\ verify.pc = "returned"
    /\ verify' = Idle
    /\ UNCHANGED <<policies, evalVars, interpVars, pipeVars, classify, route,
                   clientCache, turn, cachedBy, getterVars, matching>>

NextVerify ==
    \/ \E state \in AgentStates : Verify(state)
    \/ VerifyReturn

SpecVerify == InitEval /\ [][NextVerify]_vars

(***************************************************************************)
(* C4: round trip.  For every Command Descriptor, a generated response     *)
(* that carries it as a tool_calls JSON block (in a fence tagged json, in  *)
(* a plain fence, or bare) comes out of the Verify stage as one            *)
(* synthesized call whose arguments have exactly the same domain, action,  *)
(* resource and name.                                                      *)
(***************************************************************************)
Absent == [t |-> "absent", v |-> 0]

\* the response is replaced by one synthesized call with the descriptor's fields
Preserved(descriptor, out) ==
    /\ Len(out.messages) = 1
    /\ out.messages[1].type = "ai"
    /\ "tool_calls" \in DOMAIN out.messages[1].additional_kwargs
    /\ LET calls == out.messages[1].additional_kwargs["tool_calls"]
       IN  /\ Len(calls) = 1
           /\ calls[1].function.arguments.v.t = "dict"
           /\ \A k \in {"domain", "action", "resource", "name"} :
                 Get(calls[1].function.arguments.v.v, k, Absent)
                     = Get(descriptor, k, Absent)

\* the state whose last message is the response carrying the descriptor
Carries(state, descriptor, style, prose) ==
    /\ state.messages # <<>>
    /\ state.messages[Len(state.messages)]
           = AIMessage(Rendered(style, prose, Encode(ToolCallsBlock(<<descriptor>>))),
                       EmptyDict)

C4_ToolCallsRoundTrip ==
    verify.pc = "returned" =>
        \A descriptor \in Descriptors, style \in Styles, prose \in BOOLEAN :
            Carries(verify.state, descriptor, style, prose)
                => Preserved(descriptor, verify.out)

(***************************************************************************)
(* C11                                                                     *)
(***************************************************************************)
\* the step hands the right end of the queue to worker w, and to nobody else
Dequeues(w) ==
    /\ worker[w].pc = "poll"
    /\ worker'[w].pc = "got"
    /\ queue = queue' \o <<worker'[w].msg>>
    /\ \A v \in Workers \ {w} : worker'[v] = worker[v]

\* the step ends worker w's handling of the message in its hand: at most one
\* handler execution, for the tool that message names, and the message is
\* neither put back on the queue nor kept
Executes(w) ==
    /\ worker[w].pc = "got"
    /\ worker'[w] = [pc |-> "poll"]
    /\ queue' = queue
    /\ \A v \in Workers \ {w} : worker'[v] = worker[v]
    /\ \/ invoked' = invoked
       \/ /\ Loads(worker[w].msg).kind = "dict"
          /\ invoked' = Append(invoked,
                               HandlerCall(Get(worker[w].msg.text, "tool", NoneName),
                                           Get(worker[w].msg.text, "params", EmptyDict)))

\* C11: a message reaches a worker only by being removed from the queue, and
\* reaches one worker; a handler runs only in the step that ends the handling
\* of a message in hand, once, after which the message is gone (no retry, no
\* re-enqueue, also when the execution failed); so handler executions plus
\* messages still in hand never exceed the messages removed from the queue.
C11_Step ==
    /\ \A w \in Workers :
          worker'[w] # worker[w] =>
              Dequeues(w) \/ Executes(w) \/ worker'[w].pc = "stopped"
    /\ invoked' # invoked => \E w \in Workers : Executes(w)
    /\ Len(invoked') + Cardinality({w \in Workers : worker'[w].pc = "got"}) <= taken'

C11_AtMostOnce == [][C11_Step]_vars

\* both workers have taken a message; one execution failed and was logged,
\* the other worker still holds its message, and the queue is empty
C11_Witness ==
    /\ taken = 2
    /\ queue = <<>>
    /\ Len(invoked) = 1
    /\ \E i \in DOMAIN jobLog : jobLog[i].result = ExecutionError
    /\ \E w \in Workers : worker[w].pc = "got"
    /\ \E w \in Workers : worker[w].pc = "poll"

(***************************************************************************)
(* C12                                                                     *)
(***************************************************************************)
\* C12: after a call of evaluate_alert every Policy object it fetched has the
\* condition and the action template, nested params included, it was built
\* with; the dict the call returned is the interpolated copy.
C12_PoliciesNotMutated ==
    evalCall.called =>
        /\ evalCall.held = evalCall.pols
        /\ evaluate_alert_on_heap(evalCall.pols, evalCall.alert).ret = evalResult

\* a policy matched and its params were interpolated: the returned params
\* differ from the template's
C12_Witness ==
    /\ evalCall.called
    /\ evalResult # NoAction
    /\ \E j \in 1..Len(evalCall.pols) :
          /\ evalCall.pols[j].name = evalResult["policy_name"]
          /\ "params" \in DOMAIN evalResult
          /\ evalResult["params"] # evalCall.pols[j].action["params"]

(***************************************************************************)
(* C13                                                                     *)
(***************************************************************************)
\* worker w holds text that json.loads rejects or that is no JSON object
HoldsMalformed(w) ==
    worker[w].pc = "got" /\ Loads(worker[w].msg).kind # "dict"

\* worker w holds an action for a known tool whose call raises: the keyword
\* arguments do not bind, or the handler is no coroutine function
HoldsRaising(w) ==
    /\ HoldsDescriptor(w)
    /\ LET tool_name == Get(worker[w].msg.text, "tool", NoneName)
           params == Get(worker[w].msg.text, "params", EmptyDict)
       IN  /\ tool_name \in DOMAIN TOOL_MAP
           /\ ~AcceptsKeywords(TOOL_MAP[tool_name], params) \/ ~TOOL_MAP[tool_name].coroutine

C13_Step ==
    \A w \in Workers :
        /\ (HoldsMalformed(w) /\ worker'[w] # worker[w]) =>
              /\ worker'[w].pc = "poll"
              /\ invoked' = invoked
              /\ jobLog' = jobLog
        /\ (HoldsRaising(w) /\ worker'[w] # worker[w]) =>
              /\ worker'[w].pc = "poll"
              /\ Len(jobLog') = Len(jobLog) + 1
              /\ jobLog'[Len(jobLog')].status = "error"
              /\ jobLog'[Len(jobLog')].result = ExecutionError
        /\ worker'[w].pc = "stopped" => worker[w].pc \in {"poll", "stopped"}

\* C13: a worker that holds a malformed payload drops it, and one that holds
\* an action whose handler call raises logs an "error" Job Log Entry; either
\* way it is polling again afterwards, no worker stops with a message in its
\* hand, every message in hand is eventually dealt with, and a polling worker
\* facing a non-empty queue dequeues unless another worker empties the queue
\* or the process is interrupted from outside.
C13_LoopNeverTerminatedByMessage ==
    /\ [][C13_Step]_vars
    /\ \A w \in Workers : (worker[w].pc = "got") ~> (worker[w].pc = "poll")
    /\ \A w \in Workers :
          (worker[w].pc = "poll" /\ queue # <<>>)
              ~> (worker[w].pc # "poll" \/ queue = <<>>)

\* three messages were taken: one was dropped without a row, one failed and
\* was logged as an error, and one taken after the failure succeeded
C13_Witness ==
    /\ taken = 3
    /\ Len(jobLog) = 2
    /\ jobLog[1].result = ExecutionError
    /\ jobLog[2].status = "success"
    /\ queue = <<>>
    /\ \A w \in Workers : worker[w].pc = "poll"

(***************************************************************************)
(* The agent graph: agent_node, the tools node, and one turn of a session  *)
(***************************************************************************)
\* operator.add on the messages channel: what a node returns is appended
Reduce(state, update) ==
    [update EXCEPT !.messages = state.messages \o update.messages]

\* should_continue and verification_continue read the same field
should_continue(state) ==
    LET messages == state.messages
        last_message == messages[Len(messages)]
    IN  IF messages # <<>> /\ last_message.type = "ai"
           /\ Get(last_message.additional_kwargs, "tool_calls", <<>>) # <<>>
        THEN "tools" ELSE "end"

verification_continue(state) ==
    IF should_continue(state) = "tools" THEN "tools" ELSE "END"

\* what the forced detection of agent_node cuts out of the lowered user text:
\* uid_match, and name_match after its three patterns and its exclusions.
\* A match is the span of group 1; re.search takes the leftmost start, and at
\* a start the greedy quantifiers leave one way to match (the colon pattern
\* gives characters back until white space or the end of the text follows).
\* A value used more than once is bound by a one-element set, { ... : x \in {e} }.
grafana_matches(user_input) ==
    LET s == user_input
        n == Len(s)
        W ==
            [dashboard |-> <<"d", "a", "s", "h", "b", "o", "a", "r", "d">>,
             chart |-> <<"c", "h", "a", "r", "t">>,
             panel |-> <<"p", "a", "n", "e", "l">>,
             graph |-> <<"g", "r", "a", "p", "h">>,
             named |-> <<"n", "a", "m", "e", "d">>,
             called |-> <<"c", "a", "l", "l", "e", "d">>,
             titled |-> <<"t", "i", "t", "l", "e", "d">>,
             title |-> <<"t", "i", "t", "l", "e">>,
             get |-> <<"g", "e", "t">>,
             find |-> <<"f", "i", "n", "d">>,
             show |-> <<"s", "h", "o", "w">>,
             the |-> <<"t", "h", "e">>,
             uid |-> <<"u", "i", "d">>]
        exclude_words ==
            {<<"a", "l", "l">>,
             <<"f", "r", "o", "m">>,
             <<"l", "i", "s", "t">>,
             <<"s", "h", "o", "w">>,
             <<"d", "i", "s", "p", "l", "a", "y">>,
             <<"e", "v", "e", "r", "y">>,
             <<"d", "a", "s", "h", "b", "o", "a", "r", "d", "s">>,
             <<"c", "h", "a", "r", "t", "s">>,
             <<"p", "a", "n", "e", "l", "s">>,
             <<"g", "r", "a", "p", "h", "s">>}
        articles ==
            {<<"t", "h", "e", " ">>,
             <<"a", " ">>,
             <<"a", "n", " ">>,
             <<"m", "y", " ">>,
             <<"y", "o", "u", "r", " ">>,
             <<"o", "u", "r", " ">>,
             <<"t", "h", "e", "i", "r", " ">>}
        alpha(c) == c \in Range(ELit.LOWER) \cup Range(ELit.UPPER)
        alnum(c) == alpha(c) \/ c \in Range(ELit.DIGITS)
        space(c) == c \in {" ", "\t", "\n"}
        sep(c) == c = ":" \/ space(c)
        quote(c) == c \in {"\"", "'"}
        text(c) == ~quote(c)
        name_char(c) == alnum(c) \/ space(c) \/ c \in {"-", "_"}
        \* where the greedy run of characters of a class that starts at i ends
        RunEnd(i, In(_)) ==
            CHOOSE j \in i..(n + 1) :
                (j = n + 1 \/ ~In(s[j])) /\ \A k \in i..(j - 1) : In(s[k])
        is(i, In(_)) == i <= n /\ In(s[i])
        Span(from, to) == [from |-> from, to |-> to]
        \* re.search: the match at the leftmost start that has one
        Search(MatchAt(_)) ==
            LET leftmost(i) == /\ MatchAt(i) # NoMatch
                               /\ \A k \in 1..(i - 1) : MatchAt(k) = NoMatch
            IN  IF \E i \in 1..n : MatchAt(i) # NoMatch
                THEN MatchAt(CHOOSE i \in 1..n : leftmost(i))
                ELSE NoMatch
        group(m) == SubSeq(s, m.from, m.to)
        strip(x) ==
            LET solid == {i \in 1..Len(x) : ~space(x[i])}
            IN  IF solid = {} THEN <<>>
                ELSE SubSeq(x, Min(solid), CHOOSE j \in solid : \A i \in solid : i <= j)
        \* (?:dashboard|chart|panel|graph) at i: the index after it, 0 for none
        AfterNoun(i) ==
            IF StartsAt(s, W.dashboard, i) THEN i + 9
            ELSE IF StartsAt(s, W.chart, i) \/ StartsAt(s, W.panel, i)
                    \/ StartsAt(s, W.graph, i) THEN i + 5
            ELSE 0
        \* ["']?([a-zA-Z][a-zA-Z0-9\s\-_]+(?:\s+[a-zA-Z][a-zA-Z0-9\s\-_]+)*) at d
        NameFrom(d) == IF is(d, quote) THEN d + 1 ELSE d
        \* uid[:\s]*"?([a-zA-Z0-9]+)"?
        UidAt(i) ==
            IF ~StartsAt(s, W.uid, i) THEN NoMatch
            ELSE LET j == RunEnd(i + 3, sep)
                     k == IF j <= n /\ s[j] = "\"" THEN j + 1 ELSE j
                 IN  IF is(k, alnum) THEN Span(k, RunEnd(k, alnum) - 1) ELSE NoMatch
        \* (?:dashboard|chart|panel|graph)\s+(?:named|called|titled?)\s+["']?(...)["']?
        NamedAt(i) ==
            LET a == AfterNoun(i)
                b == RunEnd(a, space)
                c == IF StartsAt(s, W.titled, b) /\ is(b + 6, space) THEN b + 6
                     ELSE IF (StartsAt(s, W.named, b) \/ StartsAt(s, W.title, b))
                             /\ is(b + 5, space) THEN b + 5
                     ELSE IF StartsAt(s, W.called, b) /\ is(b + 6, space) THEN b + 6
                     ELSE 0
                g == NameFrom(RunEnd(c, space))
            IN  IF a # 0 /\ is(a, space) /\ c # 0 /\ is(g, alpha) /\ is(g + 1, name_char)
                THEN Span(g, RunEnd(g + 1, name_char) - 1)
                ELSE NoMatch
        \* (?:get|find|show)\s+(?:the\s+)?["']([^"']+(?:dashboard|chart|panel|graph)?[^"']*)["']
        QuotedAt(i) ==
            LET a == IF StartsAt(s, W.get, i) THEN i + 3
                     ELSE IF StartsAt(s, W.find, i) \/ StartsAt(s, W.show, i) THEN i + 4
                     ELSE 0
                b == RunEnd(a, space)
                c == IF StartsAt(s, W.the, b) /\ is(b + 3, space)
                     THEN RunEnd(b + 3, space) ELSE b
                e == RunEnd(c + 1, text)
            IN  IF a # 0 /\ is(a, space) /\ is(c, quote) /\ e > c + 1 /\ e <= n
                THEN Span(c + 1, e - 1)
                ELSE NoMatch
        \* (?:dashboard|chart|panel|graph)[:\s]+(...)(?:\s|$)
        ColonAt(i) ==
            LET a == AfterNoun(i)
                j == RunEnd(a, sep)
                e == RunEnd(j + 1, name_char)
                stops == {p \in (j + 2)..(e - 1) : space(s[p])}
            IN  IF a # 0 /\ is(a, sep) /\ is(j, alpha) /\ is(j + 1, name_char)
                THEN IF e = n + 1 THEN Span(j, n)
                     ELSE IF stops # {}
                     THEN Span(j, (CHOOSE p \in stops : \A q \in stops : q <= p) - 1)
                     ELSE NoMatch
                ELSE NoMatch
        \* the last of the three patterns that matches decides
        Last(named_match, quoted_match, colon_match) ==
            IF colon_match # NoMatch THEN colon_match
            ELSE IF quoted_match # NoMatch THEN quoted_match
            ELSE named_match
        Excluded(extracted_name) ==
            \/ \E word \in exclude_words : StrIn(word, extracted_name)
            \/ \E word \in articles : StartsAt(extracted_name, word, 1)
        Extracted(uid_match, name_match) ==
            [uid |-> IF uid_match = NoMatch THEN None ELSE Str(group(uid_match)),
             name |-> IF name_match = NoMatch THEN None
                      ELSE IF \E x \in {Lower(strip(group(name_match)))} : Excluded(x)
                      THEN None
                      ELSE Str(strip(group(name_match)))]
    IN  CHOOSE extracted \in
            {Extracted(uid_match, Last(named_match, quoted_match, colon_match)) :
                uid_match \in {Search(UidAt)}, named_match \in {Search(NamedAt)},
                quoted_match \in {Search(QuotedAt)},
                colon_match \in {Search(ColonAt)}} : TRUE

\* the forced detection that lets a name it cut out decide before a uid
forced_detection_NameFirst(user_input) ==
    LET infra(action, more) ==
            <<ToolCall(1, Name("infra_command"),
                       Dict(Descriptor("grafana", action, "dashboards", "") @@ more))>>
        tool_calls(match) ==
            IF match.name # None
            THEN infra("get", ("name" :> match.name) @@ ("query" :> match.name))
            ELSE IF match.uid # None
            THEN infra("get", "name" :> match.uid)
            ELSE infra("list", EmptyDict)
    IN  CHOOSE calls \in {tool_calls(match) : match \in {grafana_matches(user_input)}} :
            TRUE

\* agent_node, forced detection: the call list synthesized for a user text
\* that mentions both "dashboard" and "grafana"
forced_detection(user_input) ==
    LET infra(action, more) ==
            <<ToolCall(1, Name("infra_command"),
                       Dict(Descriptor("grafana", action, "dashboards", "") @@ more))>>
        tool_calls(match) ==
            IF match.uid # None
            THEN infra("get", "name" :> match.uid)
            ELSE IF match.name # None
            THEN infra("get", ("name" :> match.name) @@ ("query" :> match.name))
            ELSE infra("list", EmptyDict)
    IN  CHOOSE calls \in {tool_calls(match) : match \in {grafana_matches(user_input)}} :
            TRUE

\* agent_node on a state; response is what call_ollama returns when the node
\* asks it (call_ollama returns a str in every case and never raises).  The
\* name, namespace and container a keyword branch cuts out of the user text
\* are left out of the arguments: the tools node answers a call with any result.
\* A generated response is one line.
agent_node(state, response) ==
    LET \* the keywords agent_node looks for in the lowered user text
        KW ==
            [dashboard |-> <<"d", "a", "s", "h", "b", "o", "a", "r", "d">>,
             grafana |-> <<"g", "r", "a", "f", "a", "n", "a">>,
             scan |-> <<"s", "c", "a", "n">>,
             discover |-> <<"d", "i", "s", "c", "o", "v", "e", "r">>,
             network |-> <<"n", "e", "t", "w", "o", "r", "k">>,
             polic |-> <<"p", "o", "l", "i", "c">>,
             cpu |-> <<"c", "p", "u">>,
             memory |-> <<"m", "e", "m", "o", "r", "y">>,
             pod |-> <<"p", "o", "d">>,
             list |-> <<"l", "i", "s", "t">>,
             show |-> <<"s", "h", "o", "w">>,
             get |-> <<"g", "e", "t">>,
             namespace |-> <<"n", "a", "m", "e", "s", "p", "a", "c", "e">>,
             datasource |-> <<"d", "a", "t", "a", "s", "o", "u", "r", "c", "e">>,
             vm |-> <<"v", "m">>]
        messages == state.messages
        current_task == state.current_task
        last_message == messages[Len(messages)]
        user_input == Lower(last_message.content)
        says(kw) == StrIn(kw, user_input)
        Returned(content, tool_calls) ==
            [state EXCEPT !.messages =
                <<AIMessage(content, IF tool_calls = <<>> THEN EmptyDict
                                     ELSE "tool_calls" :> tool_calls)>>]
        infra(domain, action, resource) ==
            Returned(<<>>, <<ToolCall(1, Name("infra_command"),
                                      Dict(Descriptor(domain, action, resource, "")))>>)
        Strip(c) ==
            LET solid == {i \in 1..Len(c) : c[i].k # "ws"}
            IN  IF solid = {} THEN <<>>
                ELSE SubSeq(c, Min(solid), CHOOSE j \in solid : \A i \in solid : i <= j)
        \* ---- a tool result is last (chat-with-infra) ----
        tool_result == last_message.content
        parsed == json_loads(tool_result)
        IsDashboards(data) ==
            /\ data.t = "list" /\ data.v # <<>>
            /\ HasKey(data.v[1], "title") /\ HasKey(data.v[1], "uid")
        Numbered(data) ==
            Concat([i \in 1..Len(data.v) |->
                       IF data.v[i].t = "dict"
                       THEN <<Word("n."), WS, Word("title"), WS, Word("(UID:"), WS,
                              Word("uid)"), WS>>
                       ELSE <<>>])
        first_content ==
            IF /\ parsed.raised = "" /\ HasKey(parsed.value, "result")
               /\ HasKey(parsed.value.v["result"], "content")
               /\ parsed.value.v["result"].v["content"].t = "list"
               /\ parsed.value.v["result"].v["content"].v # <<>>
            THEN parsed.value.v["result"].v["content"].v[1] ELSE None
        data_array == IF HasKey(first_content, "text")
                      THEN json_loads(first_content.v["text"])
                      ELSE [raised |-> "no text", value |-> None]
        prometheus_result == IF parsed.raised = "" /\ HasKey(parsed.value, "result")
                                /\ Get(parsed.value.v, "jsonrpc", None) = Name("2.0")
                             THEN parsed.value.v["result"] ELSE None
        result_type == IF HasKey(prometheus_result, "resultType")
                       THEN prometheus_result.v["resultType"] ELSE None
        result_data == Get(prometheus_result.v, "result", List(<<>>))
        \* len(result_data), and in a vector len(value) of every dict item
        MetricsRaise ==
            \/ result_data.t \notin {"list", "dict", "str", "name"}
            \/ /\ result_type = Name("vector")
               /\ result_data.t = "list"
               /\ \E i \in 1..Len(result_data.v) :
                     /\ HasKey(result_data.v[i], "value")
                     /\ result_data.v[i].v["value"].t \notin {"list", "str", "name"}
        Metrics ==
            <<Word("Prometheus"), WS, Word("Query"), WS, Word("Results"), WS,
              Word("Result"), WS, Word("Type:"), WS, Word(result_type.v)>>
        Formatted ==
            IF data_array.raised = "" /\ IsDashboards(data_array.value)
            THEN Returned(<<Word("Successfully"), WS, Word("listed"), WS>>
                              \o Numbered(data_array.value), <<>>)
            ELSE IF parsed.raised = "" /\ IsDashboards(parsed.value)
            THEN Returned(Numbered(parsed.value), <<>>)
            ELSE IF result_type \in {Name("vector"), Name("matrix")} /\ ~MetricsRaise
            THEN Returned(Metrics, <<>>)
            ELSE Returned(Strip(response), <<>>)
        \* ---- a user message is last ----
        first == SkipWs(response, 1)
        line == loads(response)
        tool_call_match ==
            /\ At(response, first, Punct("{"))
            /\ \E i \in 1..Len(response) : response[i].s = "tool_calls"
            /\ line.raised = ""
            /\ HasKey(line.value, "tool_calls")
            /\ line.value.v["tool_calls"].t = "list"
        calls == line.value.v["tool_calls"].v
        Extracted ==
            Returned(<<>>, [i \in 1..Len(calls) |->
                              ToolCall(i, calls[i].v["name"],
                                       Get(calls[i].v, "arguments", Dict(EmptyDict)))])
        wants == says(KW.list) \/ says(KW.show)
        Generated ==
            IF current_task # "chat-with-infra" THEN Returned(response, <<>>)
            ELSE IF tool_call_match /\ \A i \in 1..Len(calls) : HasKey(calls[i], "name")
            THEN Extracted
            ELSE IF says(KW.cpu) \/ says(KW.memory)
            THEN infra("prometheus", "query", "")
            ELSE IF says(KW.pod) /\ (wants \/ says(KW.get))
            THEN infra("kubernetes", "list", "pods")
            ELSE IF says(KW.namespace) /\ (wants \/ says(KW.get))
            THEN infra("kubernetes", "list", "namespaces")
            ELSE IF says(KW.datasource) /\ says(KW.grafana)
            THEN infra("grafana", "list", "datasources")
            ELSE IF says(KW.vm) /\ wants
            THEN infra("vmware", "list", "vms")
            ELSE Returned(response, <<>>)
        OnUserText ==
            IF says(KW.dashboard) /\ says(KW.grafana)
            THEN Returned(<<>>, forced_detection(user_input))
            ELSE IF says(KW.scan) \/ says(KW.discover) \/ says(KW.network)
            THEN Returned(<<Word("I'll"), WS, Word("scan"), WS, Word("the"), WS,
                            Word("network"), WS, Word("for"), WS, Word("you.")>>,
                          <<ToolCall(1, Name("network_discovery"),
                                     Dict("subnet" :> Name("192.168.1.0/24")))>>)
            ELSE IF says(KW.polic)
            THEN Returned(<<Word("I'll"), WS, Word("fetch"), WS, Word("the"), WS,
                            Word("policies.")>>,
                          <<ToolCall(2, Name("get_policies"), Dict(EmptyDict))>>)
            ELSE Generated
    IN  IF messages # <<>> /\ last_message.type = "human" THEN OnUserText
        ELSE IF messages # <<>> /\ last_message.type = "tool"
                /\ current_task = "chat-with-infra"
        THEN Formatted
        ELSE Returned(<<Word("How"), WS, Word("can"), WS, Word("I"), WS, Word("assist"),
                        WS, Word("you"), WS, Word("with"), WS,
                        Word("infrastructure"), WS, Word("management?")>>, <<>>)

\* ToolNode: one ToolMessage for every call of the last message, results[i]
\* what the tool of call i returned
ToolNode(state, results) ==
    [state EXCEPT !.messages = [i \in 1..Len(results) |-> ToolMessage(results[i])]]

\* chat(): the turn starts at the agent node on the user's message
Invoke(text, chatMode) ==
    /\ turn.pc = "idle"
    /\ turn' = [pc |-> "agent", steps |-> 0,
                state |-> AgentState(<<HumanMessage(text)>>, chatMode)]
    /\ UNCHANGED <<policies, evalVars, interpVars, pipeVars, classify, route, clientCache,
                   verify, cachedBy, getterVars, matching>>

\* the graph runs one more node and merges what it returned into the state,
\* or gives up at its step limit
Step(node, merged, next) ==
    /\ turn.pc = node
    /\ IF turn.steps >= MaxSupersteps
       THEN turn' = [turn EXCEPT !.pc = "GraphRecursionError"]
       ELSE turn' = [pc |-> next, steps |-> turn.steps + 1, state |-> merged]
    /\ UNCHANGED <<policies, evalVars, interpVars, pipeVars, classify, route, clientCache,
                   verify, cachedBy, getterVars, matching>>

AgentStep(response) ==
    /\ turn.pc = "agent"
    /\ \E update \in {agent_node(turn.state, response)} :
          \E merged \in {Reduce(turn.state, update)} :
              Step("agent", merged,
                   IF should_continue(merged) = "tools" THEN "tools" ELSE "verification")

VerificationStep ==
    /\ turn.pc = "verification"
    /\ \E update \in {verification_node(turn.state)} :
          \E merged \in {Reduce(turn.state, update)} :
              Step("verification", merged, verification_continue(merged))

ToolsStep(results) ==
    /\ turn.pc = "tools"
    /\ Len(results) = Len(turn.state.messages[Len(turn.state.messages)]
                              .additional_kwargs["tool_calls"])
    /\ \E update \in {ToolNode(turn.state, results)} :
          Step("tools", Reduce(turn.state, update), "agent")

\* chat() hands the last message to the client, or the exception to the framework
TurnReturn ==
    /\ turn.pc \in {"END", "GraphRecursionError"}
    /\ turn' = Idle
    /\ UNCHANGED <<policies, evalVars, interpVars, pipeVars, classify, route, clientCache,
                   verify, cachedBy, getterVars, matching>>

NextGraph ==
    LET \* what the user writes
        UserTexts ==
            LET U ==
                  [hello |-> <<"H", "e", "l", "l", "o", " ", "t", "h", "e", "r", "e">>,
                   dashboards |-> <<"S", "h", "o", "w", " ", "G", "r", "a", "f", "a", "n", "a", " ", "d", "a", "s", "h", "b", "o", "a", "r", "d", "s">>,
                   dashboard_uid |-> <<"g", "r", "a", "f", "a", "n", "a", " ", "d", "a", "s", "h", "b", "o", "a", "r", "d", " ", "u", "i", "d", " ", "a", "b", "c", "1", "2", "3">>,
                   scan |-> <<"S", "c", "a", "n", " ", "n", "e", "t", "w", "o", "r", "k", " ", "s", "u", "b", "n", "e", "t", ":", " ", "1", "0", ".", "0", ".", "0", ".", "0", "/", "2", "4">>,
                   policies |-> <<"l", "i", "s", "t", " ", "t", "h", "e", " ", "p", "o", "l", "i", "c", "i", "e", "s">>,
                   cpu |-> <<"C", "P", "U", " ", "u", "s", "a", "g", "e", " ", "o", "f", " ", "w", "e", "b", "-", "1">>,
                   pods |-> <<"s", "h", "o", "w", " ", "p", "o", "d", "s">>,
                   namespaces |-> <<"g", "e", "t", " ", "n", "a", "m", "e", "s", "p", "a", "c", "e", "s">>,
                   datasources |-> <<"g", "r", "a", "f", "a", "n", "a", " ", "d", "a", "t", "a", "s", "o", "u", "r", "c", "e", " ", "l", "i", "s", "t">>,
                   vms |-> <<"l", "i", "s", "t", " ", "V", "M", "s">>,
                   dashboard_named |-> <<"G", "e", "t", " ", "G", "r", "a", "f", "a", "n", "a", " ", "d", "a", "s", "h", "b", "o", "a", "r", "d", " ", "n", "a", "m", "e", "d", " ", "N", "o", "d", "e", " ", "E", "x", "p", "o", "r", "t", "e", "r">>,
                   dashboard_panels |-> <<"l", "i", "s", "t", " ", "a", "l", "l", " ", "g", "r", "a", "f", "a", "n", "a", " ", "d", "a", "s", "h", "b", "o", "a", "r", "d", " ", "p", "a", "n", "e", "l", "s">>]
            IN  {U.hello, U.dashboards, U.dashboard_uid, U.scan, U.policies, U.cpu, U.pods,
                 U.namespaces, U.datasources, U.vms, U.dashboard_named, U.dashboard_panels}
        \* what the text-completion service answers: prose, a call list on one line,
        \* a fenced Command Descriptor inside prose, a fenced list of two calls, a
        \* call list whose entry has no name
        Replies ==
            LET PodList == Descriptor("kubernetes", "list", "pods", "")
                DashboardGet == Descriptor("grafana", "get", "dashboards", "node exporter")
            IN  {PROSE,
                 Encode(ToolCallsBlock(<<PodList>>)),
                 Rendered("json", TRUE, Encode(Dict(PodList))),
                 Rendered("fenced", FALSE, Encode(ToolCallsBlock(<<PodList, DashboardGet>>))),
                 Encode(Dict("tool_calls" :> List(<<Dict("arguments" :> Dict(PodList))>>)))}
        \* what a tool returns: an error text, a list of dashboards bare and in the
        \* envelope of a backend, a metrics answer
        ToolResults ==
            LET Dashboards == List(<<Dict(("title" :> Name("Node Exporter Full"))
                                            @@ ("uid" :> Name("abc123")))>>)
            IN  {Str(MSG.GRAFANA_NOT_ACCESSIBLE),
                 JsonText(Dashboards),
                 JsonText(Envelope(JsonText(Dashboards))),
                 JsonText(Dict(("jsonrpc" :> Name("2.0"))
                                  @@ ("result" :> Dict(("resultType" :> Name("vector"))
                                                          @@ ("result" :> List(<<>>))))))}
        \* discover_network: f"Scan network subnet: {request.subnet}"
        DiscoverText ==
            <<"S", "c", "a", "n", " ", "n", "e", "t", "w", "o", "r", "k", " ", "s", "u", "b", "n", "e", "t", ":", " ", "1", "9", "2", ".", "1", "6", "8", ".", "1", ".", "0", "/", "2", "4">>
    IN
    \/ \E text \in UserTexts, chatMode \in {"chat", "chat-with-infra"} :
          Invoke(text, chatMode)
    \/ Invoke(DiscoverText, "discover")
    \/ \E response \in Replies : AgentStep(response)
    \/ VerificationStep
    \/ \E results \in SeqsUpTo(ToolResults, 2) : ToolsStep(results)
    \/ TurnReturn

SpecGraph == InitEval /\ [][NextGraph]_vars

(***************************************************************************)
(* C14: every conversational turn ends without an unhandled exception:     *)
(* whatever the user writes and whatever the text-completion service and   *)
(* the tools return, the graph comes to its end within its step limit, and *)
(* only a response that carries a call list is handed to the tools node.   *)
(***************************************************************************)
C14_TurnEndsWithoutException ==
    /\ turn.pc # "GraphRecursionError"
    /\ turn.pc = "tools" => should_continue(turn.state) = "tools"

(***************************************************************************)
(* Turns of several sessions: every turn hands its Command Descriptor to   *)
(* the one router of the process, which keeps its clients in module-level  *)
(* variables                                                               *)
(***************************************************************************)
Sessions == {"s1", "s2"}

\* a turn of a session comes to its infra_command call
SessionRoute(session, cmd) ==
    /\ route.pc = "idle"
    /\ \E r \in route_infra_command(cmd, clientCache) :
        /\ route' = [pc |-> "returned", cmd |-> cmd, cached |-> clientCache,
                     result |-> r.ret, sent |-> r.sent,
                     session |-> session, cachedBy |-> cachedBy]
        /\ clientCache' = r.cache
        /\ cachedBy' = [d \in DOMAIN cachedBy |->
                           IF r.cache[d] /\ ~clientCache[d] THEN session ELSE cachedBy[d]]
    /\ UNCHANGED <<policies, evalVars, interpVars, pipeVars, classify, verify, turn, getterVars, matching>>

NextSessions ==
    \/ \E session \in Sessions, cmd \in Commands : SessionRoute(session, cmd)
    \/ RouteReturn

SpecSessions == InitEval /\ [][NextSessions]_vars

(***************************************************************************)
(* C15: sessions are isolated, with no shared mutable state: the turn of a *)
(* session reads no state that a turn of another session has written, so   *)
(* the client its command is served with was not cached by another session *)
(***************************************************************************)
C15_SessionsIsolated ==
    route.pc = "returned" =>
        \A d \in DOMAIN clientCache :
            Get(route.cmd, "domain", None) = Name(d) /\ route.cached[d]
                => route.cachedBy[d] = route.session

(***************************************************************************)
(* C16: a kubernetes Command Descriptor whose action is served through the *)
(* client (describe, delete, scale, restart, logs, ...) and whose liveness *)
(* probe succeeds makes the router issue exactly one backend call, to the  *)
(* operation mapped to the action, and return that call's result.          *)
(***************************************************************************)
C16_ClientActionIssuesOneCall ==
    LET operation == [describe |-> "kubectl_describe", delete |-> "kubectl_delete",
                      scale |-> "kubectl_scale", restart |-> "kubectl_rollout",
                      logs |-> "kubectl_logs", exec |-> "exec_in_pod",
                      create |-> "kubectl_create", apply |-> "kubectl_apply",
                      patch |-> "kubectl_patch", rollout |-> "kubectl_rollout",
                      context |-> "kubectl_context", generic |-> "kubectl_generic",
                      node_management |-> "node_management",
                      install_helm |-> "install_helm_chart",
                      upgrade_helm |-> "upgrade_helm_chart",
                      uninstall_helm |-> "uninstall_helm_chart",
                      explain |-> "explain_resource",
                      list_api_resources |-> "list_api_resources"]
        action == Get(route.cmd, "action", None)
    IN  /\ route.pc = "returned"
        /\ Get(route.cmd, "domain", None) = Name("kubernetes")
        /\ action.t = "name" /\ action.v \in DOMAIN operation
        /\ route.sent # <<>>
        /\ route.sent[1].kind = "probe"
        /\ route.sent[1].answer.kind = "response"
        /\ route.sent[1].answer.status_code = 200
        => /\ Len(ToolCalls) = 1
           /\ ToolCalls[1].tool = operation[action.v]
           /\ route.result = json_dumps(ClientResult(ToolCalls[1].answer, "method",
                                                     ToolCalls[1].tool))

(***************************************************************************)
(* C17: a kubernetes backend call carries a namespace argument only when   *)
(* the namespace of the Command Descriptor, "default" when none was        *)
(* supplied, differs from "default"; for descriptors handed to the router  *)
(* directly and for those the infra_command tool builds.                   *)
(***************************************************************************)
C17_NamespaceOnlyWhenNotDefault ==
    LET supplied == Get(route.cmd, "namespace", None)
        namespace == IF supplied = None THEN Name("default") ELSE supplied
    IN  /\ route.pc = "returned"
        /\ Get(route.cmd, "domain", None) = Name("kubernetes")
        => \A i \in 1..Len(ToolCalls) :
              HasKey(ToolCalls[i].arguments, "namespace")
                  => /\ namespace # Name("default")
                     /\ ToolCalls[i].arguments.v["namespace"] = namespace

(***************************************************************************)
(* C18: in every domain branch a backend response that is_server_error     *)
(* classifies as a server-unavailability error is replaced by the uniform  *)
(* "<domain> MCP server is not accessible" message, and a response that is *)
(* not so classified is never replaced by it: no classified response is    *)
(* forwarded, and the message is returned only for a classified response.  *)
(***************************************************************************)
C18_ServerErrorsRewritten ==
    LET last == ToolCalls[Len(ToolCalls)]
        key == IF last.backend = "grafana" THEN "tool" ELSE "method"
    IN  route.pc = "returned" /\ route.result.t = "str" =>
           /\ route.result.text = "json.dumps"
                 => ~is_server_error(route.result.detail.json)
           /\ route.result.text \in {MSG.GRAFANA_NOT_ACCESSIBLE, MSG.VMWARE_NOT_ACCESSIBLE}
                 => /\ ToolCalls # <<>>
                    /\ is_server_error(ClientResult(last.answer, key, last.tool))

(***************************************************************************)
(* C19: a prometheus query command whose query is missing or empty returns *)
(* the missing-parameter error and no request is sent to the Prometheus    *)
(* backend, whatever the client cache holds and whether or not the backend *)
(* is reachable.                                                           *)
(***************************************************************************)
IsQueryWithoutQuery(cmd) ==
    /\ Get(cmd, "domain", None) = Name("prometheus")
    /\ Get(cmd, "action", None) = Name("query")
    /\ Get(cmd, "query", None) \in {None, Str(<<>>)}

C19_MissingQueryWithoutRequest ==
    (route.pc = "returned" /\ IsQueryWithoutQuery(route.cmd)) =>
        /\ route.result = Text(MSG.MISSING_QUERY, NoDetail)
        /\ route.sent = <<>>

(***************************************************************************)
(* C20: in the kubernetes domain the liveness probe of the health endpoint *)
(* comes before any backend call, for every action: the first thing sent   *)
(* is the probe, and when the probe fails or is answered with a status     *)
(* other than 200 the router returns a connectivity error and sends no     *)
(* JSON-RPC call.                                                          *)
(***************************************************************************)
ProbeFailed(x) == x.kind = "exception" \/ x.status_code # 200

C20_ProbePrecedesCalls ==
    (route.pc = "returned" /\ Get(route.cmd, "domain", None) = Name("kubernetes")) =>
        /\ route.sent # <<>>
        /\ route.sent[1].kind = "probe"
        /\ route.sent[1].backend = "kubernetes"
        /\ \A i \in 2..Len(route.sent) : route.sent[i].kind = "tools/call"
        /\ ProbeFailed(route.sent[1].answer) =>
              /\ ToolCalls = <<>>
              /\ route.result.t = "str"
              /\ route.result.text \in {MSG.K8S_NOT_ACCESSIBLE, MSG.K8S_HEALTH_FAILED}

\* a list command whose probe was answered 404 has returned the health-check
\* error with nothing but the probe sent
C20_Witness ==
    /\ route.pc = "returned"
    /\ Get(route.cmd, "domain", None) = Name("kubernetes")
    /\ Get(route.cmd, "action", None) = Name("list")
    /\ route.sent = <<Probe("kubernetes", Response(404, <<>>, NotJson))>>
    /\ route.result = Text(MSG.K8S_HEALTH_FAILED, [code |-> 404])

(***************************************************************************)
(* C21                                                                     *)
(***************************************************************************)
\* the step in which a worker's handler ran: the call it appended to the
\* executions and the Job Log Entry it appended to the log
HandlerRan == invoked' # invoked /\ jobLog' # jobLog

\* C21: whenever the handler of a dispatch-table tool ran and returned, the
\* Job Log Entry written for it stores one of that handler's results, its
\* status is the "status" field of that result, and the status is "success"
\* or "error"; for each of the five handlers.
C21_Step ==
    HandlerRan =>
        LET call == invoked'[Len(invoked')]
            row == jobLog'[Len(jobLog')]
        IN  /\ call.tool \in DOMAIN TOOL_MAP
            /\ row.action = call.tool
            /\ row.result \in TOOL_MAP[call.tool].results
            /\ "status" \in DOMAIN row.result
            /\ row.status = row.result.status
            /\ row.status \in {"success", "error"}

C21_StatusIsHandlersOwn == [][C21_Step]_vars

(***************************************************************************)
(* The client getters, step by step: requests run as coroutines of one     *)
(* event loop, so a getter runs without interruption up to its await of    *)
(* start_server, and other requests run while the probe is in flight       *)
(***************************************************************************)
MaxClients == 2     \* clients constructed per backend

\* requests in progress in the process
Requests == {"r1", "r2"}

Backends == {"prometheus", "grafana", "vmware"}

\* get_*_mcp_client up to the await: the test of the module-level variable,
\* and for None the construction, the assignment and the start of the probe
GetterCall(r, backend) ==
    /\ getter[r].pc = "idle"
    /\ IF singleton[backend].client = 0
       THEN /\ singleton[backend].made < MaxClients
            /\ \E new \in {singleton[backend].made + 1} :
                 /\ singleton' = [singleton EXCEPT ![backend].client = new,
                                                   ![backend].made = new]
                 /\ getter' = [getter EXCEPT ![r] =
                                  [pc |-> "start_server", backend |-> backend,
                                   client |-> new]]
       ELSE /\ getter' = [getter EXCEPT ![r] =
                             [pc |-> "returned", backend |-> backend,
                              client |-> singleton[backend].client, probed |-> FALSE]]
            /\ UNCHANGED singleton
    /\ UNCHANGED <<policies, evalVars, interpVars, pipeVars, classify, route,
                   clientCache, verify, turn, cachedBy, matching>>

\* get_*_mcp_client in which a failed start_server leaves the client cached
StartServerReturn_KeepingFailed(r, x) ==
    /\ getter[r].pc = "start_server"
    /\ LET backend == getter[r].backend
           success == IF backend = "grafana" THEN grafana_start_server(x)
                      ELSE start_server(x)
       IN  IF success
           THEN /\ singleton' = [singleton EXCEPT ![backend].started =
                                                      @ \cup {getter[r].client}]
                /\ getter' = [getter EXCEPT ![r] =
                                 [pc |-> "returned", backend |-> backend,
                                  client |-> singleton[backend].client,
                                  probed |-> TRUE]]
           ELSE /\ UNCHANGED singleton
                /\ getter' = [getter EXCEPT ![r] =
                                 [pc |-> "raised", backend |-> backend,
                                  client |-> getter[r].client]]
    /\ UNCHANGED <<policies, evalVars, interpVars, pipeVars, classify, route,
                   clientCache, verify, turn, cachedBy, matching>>

\* get_*_mcp_client from the return of start_server on: the probe came to
\* exchange x; on success the module-level variable is returned, on failure
\* it is set to None and the getter raises
StartServerReturn(r, x) ==
    /\ getter[r].pc = "start_server"
    /\ LET backend == getter[r].backend
           success == IF backend = "grafana" THEN grafana_start_server(x)
                      ELSE start_server(x)
       IN  IF success
           THEN /\ singleton' = [singleton EXCEPT ![backend].started =
                                                      @ \cup {getter[r].client}]
                /\ getter' = [getter EXCEPT ![r] =
                                 [pc |-> "returned", backend |-> backend,
                                  client |-> singleton[backend].client,
                                  probed |-> TRUE]]
           ELSE /\ singleton' = [singleton EXCEPT ![backend].client = 0]
                /\ getter' = [getter EXCEPT ![r] =
                                 [pc |-> "raised", backend |-> backend,
                                  client |-> getter[r].client]]
    /\ UNCHANGED <<policies, evalVars, interpVars, pipeVars, classify, route,
                   clientCache, verify, turn, cachedBy, matching>>

\* the caller goes on with the client, or with the exception
GetterReturn(r) ==
    /\ getter[r].pc \in {"returned", "raised"}
    /\ getter' = [getter EXCEPT ![r] = Idle]
    /\ UNCHANGED <<policies, evalVars, interpVars, pipeVars, classify, route,
                   clientCache, verify, turn, cachedBy, singleton, matching>>

NextGetters ==
    \/ \E r \in Requests, backend \in Backends : GetterCall(r, backend)
    \/ \E r \in Requests, x \in ProbeExchanges : StartServerReturn(r, x)
    \/ \E r \in Requests : GetterReturn(r)

SpecGetters == InitEval /\ [][NextGetters]_vars

(***************************************************************************)
(* C22                                                                     *)
(***************************************************************************)
\* request r enters the getter of backend d in this step
Enters(r, d) ==
    getter[r].pc = "idle" /\ getter'[r].pc # "idle" /\ getter'[r].backend = d

\* C22: a client is constructed only by a getter call that finds no cached
\* instance (lazily, never at start); a call that finds an instance whose
\* liveness check has succeeded returns that instance without probing and
\* leaves it cached; a failed check leaves no cached instance; and a call
\* that finds none constructs a new client and probes it.
C22_Step ==
    \A d \in Backends :
        /\ singleton'[d].made # singleton[d].made =>
              /\ singleton[d].client = 0
              /\ \E r \in Requests : Enters(r, d)
              /\ singleton'[d].made = singleton[d].made + 1
              /\ singleton'[d].client = singleton'[d].made
        /\ \A r \in Requests :
              /\ (Enters(r, d) /\ singleton[d].client \in singleton[d].started) =>
                    /\ getter'[r] = [pc |-> "returned", backend |-> d,
                                     client |-> singleton[d].client, probed |-> FALSE]
                    /\ singleton'[d] = singleton[d]
              /\ (getter[r].pc = "start_server" /\ getter[r].backend = d
                  /\ getter'[r].pc = "raised") =>
                    singleton'[d].client = 0
              /\ (Enters(r, d) /\ singleton[d].client = 0) =>
                    /\ getter'[r].pc = "start_server"
                    /\ getter'[r].client \notin 1..singleton[d].made
                    /\ singleton'[d].client = getter'[r].client

C22_LazyCachedWhileAlive == [][C22_Step]_vars

\* the first prometheus client failed its check, the second passed, and a
\* later call got the second one from the cache without probing
C22_Witness ==
    /\ singleton["prometheus"] = [client |-> 2, made |-> 2, started |-> {2}]
    /\ \E r \in Requests :
          getter[r] = [pc |-> "returned", backend |-> "prometheus",
                       client |-> 2, probed |-> FALSE]

(***************************************************************************)
(* C23                                                                     *)
(***************************************************************************)
\* C23: a client a caller has obtained from get_prometheus_mcp_client or
\* get_esxi_mcp_client is one whose start_server has returned True, also
\* while other requests are inside the getter.
C23_OnlyCheckedClients ==
    \A r \in Requests :
        (getter[r].pc = "returned" /\ getter[r].backend \in {"prometheus", "vmware"}) =>
            getter[r].client \in singleton[getter[r].backend].started

(***************************************************************************)
(* C24                                                                     *)
(***************************************************************************)
\* the user text mentions both words, in any case
MentionsDashboardAndGrafana(text) ==
    /\ StrIn(<<"d", "a", "s", "h", "b", "o", "a", "r", "d">>, Lower(text))
    /\ StrIn(<<"g", "r", "a", "f", "a", "n", "a">>, Lower(text))

\* the agent node runs on a user text that mentions both words
ForcedStep ==
    /\ turn.pc = "agent"
    /\ turn'.pc \in {"tools", "verification", "END"}
    /\ turn.state.messages[Len(turn.state.messages)].type = "human"
    /\ MentionsDashboardAndGrafana(turn.state.messages[Len(turn.state.messages)].content)

\* C24: when the agent node runs on a user text that mentions both
\* "dashboard" and "grafana", in either mode and whatever the text-completion
\* service would answer, it appends one message with empty content and one
\* infra_command call for grafana dashboards, and the turn goes to the tools:
\* get with the uid as name if a uid was cut out of the text, else get with the
\* name as name and query if a valid name was, else list.
C24_Step ==
    ForcedStep =>
        LET messages == turn.state.messages
            extracted == grafana_matches(Lower(messages[Len(messages)].content))
            dashboards(action) == Descriptor("grafana", action, "dashboards", "")
            expected ==
                IF extracted.uid # None
                THEN dashboards("get") @@ ("name" :> extracted.uid)
                ELSE IF extracted.name # None
                THEN dashboards("get") @@ ("name" :> extracted.name)
                                       @@ ("query" :> extracted.name)
                ELSE dashboards("list")
        IN  /\ turn'.pc = "tools"
            /\ turn'.state.current_task = turn.state.current_task
            /\ turn'.state.messages =
                  Append(messages,
                         AIMessage(<<>>, "tool_calls" :>
                                      <<ToolCall(1, Name("infra_command"), Dict(expected))>>))

C24_ForcedGrafanaDetection == [][C24_Step]_vars

\* in plain chat mode a text with a uid and a name has led to the get by uid
C24_Witness ==
    /\ turn.pc = "tools"
    /\ turn.state.current_task = "chat"
    /\ Len(turn.state.messages) = 2
    /\ MentionsDashboardAndGrafana(turn.state.messages[1].content)
    /\ grafana_matches(Lower(turn.state.messages[1].content)).name # None
    /\ turn.state.messages[2].additional_kwargs["tool_calls"][1].function.arguments
          = JsonText(Dict(Descriptor("grafana", "get", "dashboards", "")
                             @@ ("name" :> Str(<<"a", "b", "c", "1", "2", "3">>))))

(***************************************************************************)
(* C25                                                                     *)
(***************************************************************************)
\* the generated response the node was run on, when there is one
Response25 == verify.state.messages[Len(verify.state.messages)]

RanOnResponse ==
    /\ verify.pc = "returned"
    /\ verify.state.messages # <<>>
    /\ Response25.type = "ai"

\* no pattern matches content
NothingCaptured(content) == code_match(content) = NoMatch

\* the capture of the first matching pattern is no JSON
CaptureUnparsed(content) ==
    /\ ~NothingCaptured(content)
    /\ loads(SubSeq(content, code_match(content).from, code_match(content).to)).raised # ""

\* the capture parses to a value of neither shape: no tool_calls list, and
\* not both domain and action
CaptureOfNoShape(content) ==
    /\ ~NothingCaptured(content)
    /\ ~CaptureUnparsed(content)
    /\ LET data == loads(SubSeq(content, code_match(content).from,
                                code_match(content).to)).value
       IN  /\ ~(HasKey(data, "tool_calls") /\ data.v["tool_calls"].t = "list")
           /\ ~(HasKey(data, "domain") /\ HasKey(data, "action"))

\* C25: when no pattern matches the generated response, or the capture of the
\* first matching pattern does not parse as JSON, or it parses to neither
\* accepted shape, the node hands the state back, the response stays the last
\* message as it was, it carries no call, and the edge after the node goes to
\* the end of the turn.
C25_UnextractableIsFinal ==
    (RanOnResponse /\ (\/ NothingCaptured(Response25.content)
                       \/ CaptureUnparsed(Response25.content)
                       \/ CaptureOfNoShape(Response25.content))) =>
        LET after == Reduce(verify.state, verify.out)
        IN  /\ verify.out = verify.state
            /\ after.messages[Len(after.messages)] = Response25
            /\ Get(Response25.additional_kwargs, "tool_calls", <<>>) = <<>>
            /\ verification_continue(after) = "END"

\* a fenced object that parses but has only an action was handed back
C25_Witness ==
    /\ RanOnResponse
    /\ CaptureOfNoShape(Response25.content)
    /\ At(Response25.content, 1, FENCE)
    /\ verify.out = verify.state

(***************************************************************************)
(* _match_condition on its own: conditions that carry any combination of   *)
(* the four shapes, against the sample alert entries                       *)
(***************************************************************************)
\* one call of _match_condition
MatchCondition(condition, labels, annotations, status) ==
    /\ matching.pc = "idle"
    /\ matching' = [pc |-> "returned", condition |-> condition, labels |-> labels,
                    annotations |-> annotations, status |-> status,
                    result |-> _match_condition(condition, labels, annotations, status)]
    /\ UNCHANGED <<policies, evalVars, interpVars, pipeVars, classify, route,
                   clientCache, verify, turn, cachedBy, getterVars>>

\* evaluate_alert goes on with the answer
MatchReturn ==
    /\ matching.pc = "returned"
    /\ matching' = Idle
    /\ UNCHANGED <<policies, evalVars, interpVars, pipeVars, classify, route,
                   clientCache, verify, turn, cachedBy, getterVars>>

NextMatch ==
    LET \* the parts a condition is put together from; <<>> for a part left out
        LabelValue ==
            {EmptyDict,
             [label |-> Lit.s_alertname],
             [label |-> Lit.s_alertname, value |-> Str(Lit.s_PodCrashLoop)],
             [label |-> Lit.s_alertname, value |-> Str(Lit.s_ServiceDown)]}
        Labels ==
            {EmptyDict,
             [labels |-> EmptyDict],
             [labels |-> (Lit.s_alertname :> Str(Lit.s_PodCrashLoop))],
             [labels |-> (Lit.s_alertname :> Str(Lit.s_ServiceDown))
                         @@ (Lit.s_vm_name :> Str(Lit.s_db1))]}
        Status == {EmptyDict, [status |-> "firing"], [status |-> "resolved"]}
        Expression == {EmptyDict, [expression |-> Str(Lit.s_summary)]}
        Entries == {SampleEntry.crash, SampleEntry.down, SampleEntry.annotated,
                    SampleEntry.bare}
    IN
    \/ \E lv \in LabelValue, ls \in Labels, st \in Status, ex \in Expression,
          alert_item \in Entries, status \in {"firing", "resolved"} :
          MatchCondition(lv @@ ls @@ st @@ ex, EntryLabels(alert_item),
                         EntryAnnotations(alert_item), status)
    \/ MatchReturn

SpecMatch == InitEval /\ [][NextMatch]_vars

(***************************************************************************)
(* C26                                                                     *)
(***************************************************************************)
\* the first shape, in the order label and value, labels, status,
\* expression, that the condition carries
FirstShape(condition) ==
    IF {"label", "value"} \subseteq DOMAIN condition THEN {"label", "value"}
    ELSE IF "labels" \in DOMAIN condition THEN {"labels"}
    ELSE IF "status" \in DOMAIN condition THEN {"status"}
    ELSE IF "expression" \in DOMAIN condition THEN {"expression"}
    ELSE {}

\* what a condition of one shape alone says about the alert
ShapeHolds(shape, condition, labels, annotations, status) ==
    CASE shape = {"label", "value"} ->
            \/ /\ condition.label \in DOMAIN labels
               /\ Truthy(labels[condition.label])
               /\ labels[condition.label] = condition.value
            \/ /\ ~(condition.label \in DOMAIN labels /\ Truthy(labels[condition.label]))
               /\ condition.label \in DOMAIN annotations
               /\ annotations[condition.label] = condition.value
      [] shape = {"labels"} ->
            \A key \in DOMAIN condition.labels :
                key \in DOMAIN labels /\ labels[key] = condition.labels[key]
      [] shape = {"status"} -> status = condition.status
      [] OTHER -> FALSE

\* C26: the answer of _match_condition is what the first shape the condition
\* carries says, whatever later shapes it also carries: it is the answer for
\* the condition cut down to that shape; and a condition whose only shape is
\* expression matches no alert.
C26_FirstShapeDecides ==
    matching.pc = "returned" =>
        LET shape == FirstShape(matching.condition)
            alone == [k \in shape |-> matching.condition[k]]
        IN  /\ matching.result = ShapeHolds(shape, matching.condition, matching.labels,
                                            matching.annotations, matching.status)
            /\ matching.result = _match_condition(alone, matching.labels,
                                                  matching.annotations, matching.status)
            /\ shape \subseteq {"expression"} => ~matching.result

\* a condition with labels that match and a status that does not has matched
C26_Witness ==
    /\ matching.pc = "returned"
    /\ {"labels", "status", "expression"} \subseteq DOMAIN matching.condition
    /\ matching.condition.labels # EmptyDict
    /\ matching.condition.status # matching.status
    /\ matching.result

(***************************************************************************)
(* C27                                                                     *)
(***************************************************************************)
\* the verification node runs in this step and hands back the state it got
PassesThrough ==
    /\ turn.pc = "verification"
    /\ turn'.pc \in {"tools", "END"}
    /\ verification_node(turn.state) = turn.state

\* C27: when the verification node passes the state through, the message
\* list of the turn after the step is the list before it: nothing is added,
\* removed or duplicated by the reducer of the messages channel.
C27_Step == PassesThrough => turn'.state.messages = turn.state.messages

C27_PassThroughKeepsMessages == [][C27_Step]_vars

(***************************************************************************)
(* C28                                                                     *)
(***************************************************************************)
\* the turn has ended and a tool was run during it
EndedAfterToolCall ==
    /\ turn.pc = "END"
    /\ \E i \in 1..Len(turn.state.messages) : turn.state.messages[i].type = "tool"

\* the text of the default branch of agent_node, the same whatever any call
\* returned
DefaultText ==
    <<Word("How"), WS, Word("can"), WS, Word("I"), WS, Word("assist"), WS, Word("you"),
      WS, Word("with"), WS, Word("infrastructure"), WS, Word("management?")>>

\* C28: in every mode (chat, chat-with-infra, discover) a turn during which a
\* tool was run ends with a text made from what the tool returned, so never
\* with the fixed text of the default branch.
C28_FinalTextFromResult ==
    EndedAfterToolCall =>
        turn.state.messages[Len(turn.state.messages)].content # DefaultText

(***************************************************************************)
(* The alert endpoint on its own: receive_alert with the call of           *)
(* evaluate_alert it makes on record, over any set of sample policies      *)
(***************************************************************************)
MaxQueued == 2      \* messages the alert endpoint pushes in one run

\* receive_alert that pushes an action for every entry a policy matches
ReceiveAlertCall_EveryEntry(alert) ==
    /\ ~evalCall.called
    /\ Len(queue) < MaxQueued
    /\ \E pols \in get_all_policies(policies) :
        \E each \in {[i \in 1..Len(alert.alerts) |->
                        evaluate_alert(pols, [alert EXCEPT !.alerts = <<alert.alerts[i]>>])]} :
            /\ evalCall' = [called |-> TRUE, alert |-> alert, pols |-> pols,
                            held |-> evaluate_alert_on_heap(pols, alert).pols]
            /\ evalResult' = evaluate_alert(pols, alert)
            /\ \E pushed \in
                   {[i \in 1..Cardinality({k \in DOMAIN each : each[k] # NoAction}) |->
                       Dumps(each[CHOOSE k \in DOMAIN each :
                                /\ each[k] # NoAction
                                /\ Cardinality({l \in k..Len(each) : each[l] # NoAction}) = i])]} :
                   /\ queue' = pushed \o queue
                   /\ enqueued' = enqueued \o [i \in 1..Len(pushed) |->
                                                 pushed[Len(pushed) + 1 - i]]
    /\ UNCHANGED <<engineVars, policies, interpVars, worker, jobLog, invoked, taken>>

\* api.receive_alert, from the request to the push: the call of
\* evaluate_alert and what it returned stay on record until the response
ReceiveAlertCall(alert) ==
    /\ ~evalCall.called
    /\ Len(queue) < MaxQueued
    /\ \E pols \in get_all_policies(policies) :
        \E action \in {evaluate_alert(pols, alert)} :
            /\ evalCall' = [called |-> TRUE, alert |-> alert, pols |-> pols,
                            held |-> evaluate_alert_on_heap(pols, alert).pols]
            /\ evalResult' = action
            /\ IF action # NoAction /\ DOMAIN action # {}
               THEN /\ queue' = lpush(queue, Dumps(action))
                    /\ enqueued' = Append(enqueued, Dumps(action))
               ELSE UNCHANGED <<queue, enqueued>>
    /\ UNCHANGED <<engineVars, policies, interpVars, worker, jobLog, invoked, taken>>

NextAlerts ==
    \/ \E p \in PolicyPool : CreatePolicy(p)
    \/ \E p \in PolicyPool : DeletePolicy(p)
    \/ \E alert \in WebhookPayloads : ReceiveAlertCall(alert)
    \/ EvaluateReturn

SpecAlerts == InitEval /\ [][NextAlerts]_vars

(***************************************************************************)
(* C29                                                                     *)
(***************************************************************************)
\* the alert endpoint handles a payload in this step
HandlesPayload == ~evalCall.called /\ evalCall'.called

\* C29: the step in which the alert endpoint handles a payload pushes at
\* most one message: when some entry of the payload is matched by a policy
\* of the table, exactly one, at the left end, the action of a policy that
\* matches the first such entry, built from that entry, however many entries
\* match; when no entry is matched, or the table is empty, the queue stays as
\* it is.
C29_Step ==
    HandlesPayload =>
        LET alert == evalCall'.alert
            E == MatchedEntries(policies, alert)
        IN  IF E = {} THEN queue' = queue
            ELSE /\ queue' = <<queue'[1]>> \o queue
                 /\ \E p \in EntryMatchers(policies, alert, Min(E)) :
                       queue'[1] = Dumps(BuildAction(p, alert.alerts[Min(E)]))

C29_AtMostOneMessagePerPayload == [][C29_Step]_vars

\* a payload with two matched entries has been handled and one message, made
\* from the first entry, is on the queue
C29_Witness ==
    /\ evalCall.called
    /\ Cardinality(MatchedEntries(policies, evalCall.alert)) = 2
    /\ queue = <<Dumps(evalResult)>>
    /\ evalResult["alert_labels"] = EntryLabels(evalCall.alert.alerts[1])


(***************************************************************************)
(* The pipeline with a single worker process                               *)
(***************************************************************************)
TheWorker == "w1"

NextSingleWorker ==
    \/ LoadSamplePolicies
    \/ \E alert \in WebhookPayloads : ReceiveAlert(alert)
    \/ \E msg \in ExternalMessages : ExternalPush(msg)
    \/ Brpop(TheWorker)
    \/ BrpopTimeout(TheWorker)
    \/ HandleMessage(TheWorker)
    \/ Interrupt(TheWorker)

SpecSingleWorker == Init /\ [][NextSingleWorker]_vars

(***************************************************************************)
(* C30                                                                     *)
(***************************************************************************)
\* the messages the worker is done with: all it has taken but the one in hand
Handled ==
    SubSeq(enqueued, 1, IF worker[TheWorker].pc = "got" THEN taken - 1 ELSE taken)

\* those of them that process_task was called with
Processed == SelectSeq(Handled, LAMBDA msg : Loads(msg).kind = "dict")

RECURSIVE CallsCausedBy(_)
\* the handler executions processing these messages in this order causes
CallsCausedBy(msgs) ==
    IF msgs = <<>> THEN <<>>
    ELSE (CHOOSE out \in process_task(Loads(Head(msgs)).value) : TRUE).calls
         \o CallsCausedBy(Tail(msgs))

\* the worker takes messages in the order they were pushed: what is still
\* queued is everything pushed after the last message taken, newest at the
\* left end, and the message in hand is the last one taken
TakenInOrder ==
    /\ taken <= Len(enqueued)
    /\ queue = [i \in 1..(Len(enqueued) - taken) |-> enqueued[Len(enqueued) + 1 - i]]
    /\ worker[TheWorker].pc = "got" => worker[TheWorker].msg = enqueued[taken]

\* C30: with a single worker, Action Descriptors are executed in the order in
\* which they were enqueued, whatever the interleaving of enqueues and
\* dequeues: the k-th message taken is the k-th message pushed, the job log
\* holds one row per descriptor processed, in the order of the pushes, and
\* the handlers ran in that order
C30_SingleWorkerFifo ==
    /\ TakenInOrder
    /\ Len(jobLog) = Len(Processed)
    /\ \A k \in DOMAIN jobLog :
          \E out \in process_task(Loads(Processed[k]).value) : out.rows = <<jobLog[k]>>
    /\ invoked = CallsCausedBy(Processed)

\* two different descriptors from the alert endpoint, both taken and
\* processed by the worker in the order of their pushes, a third message waiting
C30_Witness ==
    /\ Len(enqueued) = 3
    /\ enqueued[1] # enqueued[2]
    /\ \A k \in 1..2 : /\ enqueued[k].fmt = "json_object"
                       /\ "policy_name" \in DOMAIN enqueued[k].text
    /\ taken = 2
    /\ worker[TheWorker].pc = "poll"
    /\ Len(jobLog) = 2
    /\ jobLog[1].action = enqueued[1].text.tool
    /\ jobLog[2].action = enqueued[2].text.tool
    /\ Len(queue) = 1

====
